---- MODULE Spec2Model ----
(***************************************************************************)
(* Ingestion pipeline of project-c.                                        *)
(*                                                                         *)
(*   Spec      DownloadManager (src/download_videos.py): the worker pool   *)
(*             of download_channel, download_video with its retry loop,    *)
(*             rate_limit_wait and the two append-only logs.               *)
(*   SpecChunk process_channel (src/app/pipeline/embedder.py): the         *)
(*             chunking loop over one transcript and the two store writes. *)
(*   SpecSignal  Spec with a termination signal sent to the process.       *)
(*   SpecId    the derived chunk ID of embedder.py line 161 on two         *)
(*             (channel, video, index) triples.                            *)
(*   SpecReingest  the chunking and the store writes of one item over      *)
(*             several runs, the stores keeping what was written.          *)
(*   SpecMeta  process_channel up to the chunking: the freshness checks    *)
(*             and the metadata upserts (src/app/storage/db_client.py).    *)
(*   SpecTrim  trim_silence on the files of a directory                    *)
(*             (src/app/pipeline/audio_processor.py).                      *)
(*   SpecGetMetadata  Spec with the metadata call of a video failing or    *)
(*             not.                                                        *)
(*   SpecSelect  download_channel over several runs: enumeration, archive  *)
(*             filter and selection, the pool taken by its outcome.        *)
(*   SpecUpsert  calls of insert_channel_metadata for two collection IDs.  *)
(*   SpecRun   process_channel over several runs on one item, from the     *)
(*             freshness checks to the two chunk writes.                   *)
(*                                                                         *)
(* Strings are sequences of one-character strings.  Times are integers     *)
(* (seconds).  Appends to the local log files are taken to succeed.        *)
(***************************************************************************)
EXTENDS Integers, Sequences, FiniteSets, TLC

VARIABLES
    \* ---- DownloadManager ----
    since_last_request,   \* time.time() - self.last_request_time, in seconds,
                          \* kept up to rate_limit (all rate_limit_wait reads)
    queue,                \* tasks submitted to the executor, not yet started
    pc,                   \* per worker thread: position in download_video
    vid,                  \* per worker: video_id argument
    attempt,              \* per worker: loop variable of "for attempt in range"
    last_error,           \* per worker: local last_error
    sleep_left,           \* per worker: seconds left of its time.sleep
    initial_wav_files,    \* per worker: snapshot of audio_dir before the fetch
    audio_file,           \* per worker: the file picked after the fetch
    audio_dir,            \* *.wav files of audio_dir, oldest st_mtime first
    archive_file,         \* downloaded_videos.txt, one record per line
    failed_downloads,     \* failed_downloads.txt, line by line
    future,               \* per submitted video: state and result of its future
    successful_downloads, \* counter of download_channel
    failed_count,         \* counter failed_downloads of download_channel
    min_grant_gap,        \* observer: least time between a grant and the one
                          \* before it, kept up to rate_limit
    hist,                 \* observer: per video, steps of its latest attempt
    max_workers,          \* self.max_workers, the executor's cap
    main_pc,              \* the main thread: position in download_channel
    summary,              \* download_summary_*.json: <<successful, failed>>
    extracted_hours_ago,  \* per video: age of its stored extraction
                          \* timestamp, or NoneTime when it has none
    killed_at,            \* observer: where each worker was when the process
                          \* was terminated
    video_json,           \* per video: what ./yt-dlp --dump-single-json gives
                          \* for it in this run, "json" or "error"
    metadata,             \* per worker: local metadata of download_video
    has_grant,            \* observer, per worker: rate_limit_wait returned
                          \* since the worker's last call of the fetch tool
    ungated_calls,        \* observer: <<video, call>> of every call of the
                          \* fetch tool made without such a grant
    channel_info,         \* download_channel: what the source gave to
                          \* get_channel_info in this run
    choice,               \* the answer given to prompt_for_video_count
    submitted,            \* observer: videos_to_download of the latest run
    logs_at_start,        \* observer: the two logs when the run started
    runs,                 \* number of runs of download_channel so far
    \* ---- process_channel ----
    epc,                  \* position in process_channel for the item
    channel_id, video_id, \* IDs of the item being processed
    segments,             \* transcript["segments"]
    i,                    \* loop index of the chunking loop
    current_chunk, start_time, texts, metadatas, ids,
    pg_chunks,            \* rows passed to insert_transcript_chunks
    transcript_chunks,    \* relational table, as a set of rows
    chroma,               \* vector collection, as a set of records
    \* ---- derived IDs ----
    tripleA, tripleB, idA, idB,
    \* ---- re-ingestion ----
    prev_pass,            \* observer: <<segments, ids>> of the pass before
    \* ---- metadata of process_channel and the relational tables ----
    utcnow,               \* datetime.utcnow(), in hours
    channels,             \* table channels, as a set of rows
    videos,               \* table videos, as a set of rows
    mpc,                  \* position of the run of process_channel
    meta,                 \* local meta: the item's metadata file as loaded
    run_start,            \* observer: utcnow when the run started
    last_channel_write,   \* observer: utcnow of the last channel write
    min_write_gap,        \* observer: least time between a channel write and
                          \* the start of a run that calls the write again,
                          \* kept up to FreshHours
    last_meta,            \* observer: meta of the latest item write
    transcript_file,      \* the item's transcript file as it is on disk
    item_result,          \* observer: how the latest iteration of the item
                          \* in process_channel ended
    latest_call,          \* observer: per channel ID, the title passed to
                          \* the latest insert_channel_metadata that wrote
    rows_same_input,      \* observer: the item's row after the write before
                          \* and after the latest write, when both had the
                          \* same meta
    \* ---- trim_silence over the files of a directory ----
    wav_k,                \* process_audio_directory: index of the current file
    tpc,                  \* position in trim_silence
    input_file,           \* per file: what is at the path input_file
    output_file,          \* per file: what is at the path output_file
    original,             \* observer: what was at input_file before the call
    trim_result           \* observer: per file, how its call ended

dlVars == <<since_last_request, queue, pc, vid, attempt, last_error, sleep_left,
            initial_wav_files, audio_file, audio_dir, archive_file,
            failed_downloads, future, successful_downloads, failed_count,
            min_grant_gap, hist, max_workers, main_pc, summary,
            extracted_hours_ago, killed_at, video_json, metadata, has_grant,
            ungated_calls,
            channel_info, choice, submitted, logs_at_start, runs>>
chunkVars == <<epc, channel_id, video_id, segments, i, current_chunk, start_time,
               texts, metadatas, ids, pg_chunks, transcript_chunks, chroma>>
idVars == <<tripleA, tripleB, idA, idB>>
reVars == <<prev_pass>>
metaVars == <<utcnow, channels, videos, mpc, meta, run_start, last_channel_write,
              min_write_gap, last_meta, rows_same_input, transcript_file,
              item_result, latest_call>>
trimVars == <<wav_k, tpc, input_file, output_file, original, trim_result>>
vars == <<dlVars, chunkVars, idVars, reVars, metaVars, trimVars>>

\* what the actions of one part leave alone
notDl == <<chunkVars, idVars, reVars, metaVars, trimVars>>
notChunk == <<dlVars, idVars, reVars, metaVars, trimVars>>
notId == <<dlVars, chunkVars, reVars, metaVars, trimVars>>
notMeta == <<dlVars, chunkVars, idVars, reVars, trimVars>>
notTrim == <<dlVars, chunkVars, idVars, reVars, metaVars>>

\* None of a local that otherwise holds a time
NoneTime == 0 - 1

\* ------------------------------------------------------------------------
\* Bounds and program constants
\* ------------------------------------------------------------------------
MaxWorkers == 2
NumVideos == 2
rate_limit == 2
max_retries == 3
\* the freshness window of embedder.py lines 71 and 99, in hours
FreshHours == 24

Workers == 1..MaxWorkers
videos_to_download == [k \in 1..NumVideos |-> k]
Videos == 1..NumVideos

\* ------------------------------------------------------------------------
\* DownloadManager
\* ------------------------------------------------------------------------
NoError == <<>>
NoVideo == 0 * 1
NoSteps == [fetched |-> "none", normalized |-> "none", transcribed |-> "none"]
Pending == [state |-> "pending", result |-> <<>>]

\* a video of an earlier session, not among those selected now
OldVideo == NumVideos + 1
NoSummary == <<>>
\* the local metadata before get_video_metadata returned
NoMetadata == "unset"
\* no answer of the source, no answer to the prompt
NoInfo == [returncode |-> 0, parsed |-> FALSE, entries |-> <<>>]
NoChoice == [option |-> "", num |-> 0, video |-> NoVideo]

\* the selection of download_channel is not in use: the pool starts from the
\* fixed videos_to_download
SelIdle ==
    /\ channel_info = NoInfo /\ choice = NoChoice /\ submitted = <<>>
    /\ logs_at_start = <<>> /\ runs = 0

\* The logs are empty or hold the records of an earlier session; the first
\* video has no stored extraction timestamp or one written within the hour.
PoolStart ==
    /\ max_workers \in 1..MaxWorkers
    /\ main_pc = "as_completed"
    /\ summary = NoSummary
    /\ extracted_hours_ago \in
          {[v \in Videos |-> NoneTime],
           [v \in Videos |-> IF v = 1 THEN 0 ELSE NoneTime]}
    /\ killed_at = <<>>
    /\ since_last_request = rate_limit
    /\ queue = videos_to_download
    /\ pc = [w \in Workers |-> "idle"]
    /\ vid = [w \in Workers |-> NoVideo]
    /\ attempt = [w \in Workers |-> 0]
    /\ last_error = [w \in Workers |-> NoError]
    /\ sleep_left = [w \in Workers |-> 0]
    /\ initial_wav_files = [w \in Workers |-> {}]
    /\ audio_file = [w \in Workers |-> NoVideo]
    /\ \/ archive_file = <<>> /\ failed_downloads = <<>>
       \/ /\ archive_file = <<<<"youtube", OldVideo>>>>
          /\ failed_downloads = <<<<OldVideo, <<max_retries - 1, "exception">>>>>>
    /\ future = [v \in Videos |-> Pending]
    /\ successful_downloads = 0
    /\ failed_count = 0
    /\ min_grant_gap = rate_limit
    /\ hist = [v \in Videos |-> NoSteps]
    /\ metadata = [w \in Workers |-> NoMetadata]
    /\ has_grant = [w \in Workers |-> FALSE]
    /\ ungated_calls = {}
    /\ SelIdle

\* the audio directory holds no file
PoolInit ==
    /\ PoolStart
    /\ audio_dir = <<>>

\* the audio file of the first video is in the directory, left by an earlier
\* run that was interrupted before its archive record; a pool of MaxWorkers
\* threads, empty logs, no stored extraction timestamp
LeftoverInit ==
    /\ PoolStart
    /\ audio_dir = <<videos_to_download[1]>>
    /\ max_workers = MaxWorkers
    /\ archive_file = <<>>
    /\ extracted_hours_ago = [v \in Videos |-> NoneTime]
    /\ video_json = [v \in Videos |-> "json"]

\* the source gives the metadata of every video
DlInit ==
    /\ PoolInit
    /\ video_json = [v \in Videos |-> "json"]

\* the source gives the metadata of a video or not; a pool of MaxWorkers
\* threads, empty logs, no stored extraction timestamp
GetMetadataInit ==
    /\ PoolInit
    /\ max_workers = MaxWorkers
    /\ archive_file = <<>>
    /\ extracted_hours_ago = [v \in Videos |-> NoneTime]
    /\ video_json \in [Videos -> {"json", "error"}]

DlIdle ==
    /\ since_last_request = 0 /\ queue = <<>>
    /\ pc = <<>> /\ vid = <<>> /\ attempt = <<>> /\ last_error = <<>>
    /\ sleep_left = <<>> /\ initial_wav_files = <<>> /\ audio_file = <<>>
    /\ audio_dir = <<>> /\ archive_file = <<>>
    /\ failed_downloads = <<>> /\ future = <<>>
    /\ successful_downloads = 0 /\ failed_count = 0
    /\ min_grant_gap = 0 /\ hist = <<>>
    /\ max_workers = 0 /\ main_pc = "off" /\ summary = NoSummary
    /\ extracted_hours_ago = <<>> /\ killed_at = <<>>
    /\ video_json = <<>> /\ metadata = <<>> /\ has_grant = <<>>
    /\ ungated_calls = {}
    /\ SelIdle

Min(a, b) == IF a <= b THEN a ELSE b
Max(a, b) == IF a >= b THEN a ELSE b

\* one second passes: the clock moves away from last_request_time and every
\* time.sleep in progress has one second less to go
Tick ==
    /\ since_last_request' = Min(since_last_request + 1, rate_limit)
    /\ sleep_left' = [w \in Workers |-> Max(sleep_left[w] - 1, 0)]
    /\ UNCHANGED <<queue, pc, vid, attempt, last_error, initial_wav_files,
                   audio_file, audio_dir, archive_file, failed_downloads,
                   future, successful_downloads, failed_count, min_grant_gap,
                   hist, max_workers, main_pc, summary, extracted_hours_ago,
                   killed_at, video_json, metadata, has_grant, ungated_calls,
                   channel_info, choice, submitted, logs_at_start, runs,
                   notDl>>

\* every thread slot of the model, whatever the cap
ThreadsUncapped(n) == Workers
\* line 493: ThreadPoolExecutor(max_workers=n) runs at most n threads
Threads(n) == 1..n

\* A pool thread takes the next submitted task and enters download_video
\* (lines 296-297: max_retries = 3, last_error = None).
StartTask(w) ==
    /\ w \in Threads(max_workers)
    /\ pc[w] = "idle"
    /\ queue # <<>>
    /\ vid' = [vid EXCEPT ![w] = Head(queue)]
    /\ queue' = Tail(queue)
    /\ future' = [future EXCEPT ![Head(queue)].state = "running"]
    /\ attempt' = [attempt EXCEPT ![w] = 0]
    /\ last_error' = [last_error EXCEPT ![w] = NoError]
    /\ metadata' = [metadata EXCEPT ![w] = NoMetadata]
    /\ has_grant' = [has_grant EXCEPT ![w] = FALSE]
    /\ pc' = [pc EXCEPT ![w] = "get_video_metadata"]
    /\ UNCHANGED <<since_last_request, sleep_left, initial_wav_files,
                   audio_file, audio_dir, archive_file, failed_downloads,
                   successful_downloads, failed_count, min_grant_gap, hist,
                   max_workers, main_pc, summary, extracted_hours_ago,
                   killed_at, video_json, ungated_calls, channel_info,
                   choice, submitted, logs_at_start, runs, notDl>>

\* a call of the fetch tool by worker w (subprocess.run of ./yt-dlp): the
\* observers note whether rate_limit_wait returned since the worker's call
\* before, and the grant is used up
ToolCall(w, call) ==
    /\ ungated_calls' = IF has_grant[w] THEN ungated_calls
                        ELSE ungated_calls \cup {<<vid[w], call>>}
    /\ has_grant' = [has_grant EXCEPT ![w] = FALSE]

\* download_video gives up when the metadata could not be fetched
AfterGetVideoMetadataFatal(m) ==
    IF m = "None" THEN "write_failed" ELSE "rate_limit_wait"
\* lines 299-305: whatever get_video_metadata returned, the retry loop follows
AfterGetVideoMetadata(m) == "rate_limit_wait"

\* get_video_metadata lines 262-292: the metadata when the tool exited 0
\* with output that parses, None when it exited non-zero, its output did
\* not parse or an exception was raised
UsefulMetadata(json) == IF json = "json" THEN "useful_metadata" ELSE "None"

\* line 300, get_video_metadata (lines 253-292): the tool is run at once
\* (line 262).  The result is not read again by download_video.
GetVideoMetadata(w) ==
    /\ pc[w] = "get_video_metadata"
    /\ ToolCall(w, "metadata")
    /\ metadata' = [metadata EXCEPT ![w] = UsefulMetadata(video_json[vid[w]])]
    /\ pc' = [pc EXCEPT ![w] = AfterGetVideoMetadata(metadata'[w])]
    /\ UNCHANGED <<since_last_request, queue, vid, attempt, last_error,
                   sleep_left, initial_wav_files, audio_file, audio_dir,
                   archive_file, failed_downloads, future,
                   successful_downloads, failed_count, min_grant_gap, hist,
                   max_workers, main_pc, summary, extracted_hours_ago,
                   killed_at, video_json, channel_info, choice, submitted,
                   logs_at_start, runs, notDl>>

\* rate_limit_wait line 130: elapsed = time.time() - self.last_request_time
Elapsed == since_last_request

\* rate_limit_wait lines 130-132: read the clock and the shared field, then
\* sleep for the remainder or go on at once.  No lock is held.
RateLimitRead(w) ==
    /\ pc[w] = "rate_limit_wait"
    /\ IF Elapsed < rate_limit
         THEN /\ sleep_left' = [sleep_left EXCEPT ![w] = rate_limit - Elapsed]
              /\ pc' = [pc EXCEPT ![w] = "rate_limit_sleep"]
         ELSE /\ pc' = [pc EXCEPT ![w] = "rate_limit_grant"]
              /\ UNCHANGED sleep_left
    /\ UNCHANGED <<since_last_request, queue, vid, attempt, last_error,
                   initial_wav_files, audio_file, audio_dir, archive_file,
                   failed_downloads, future, successful_downloads,
                   failed_count, min_grant_gap, hist, max_workers, main_pc,
                   summary, extracted_hours_ago, killed_at, video_json,
                   metadata, has_grant, ungated_calls, channel_info, choice,
                   submitted, logs_at_start, runs, notDl>>

\* time.sleep(self.rate_limit - elapsed) returns
RateLimitSleep(w) ==
    /\ pc[w] = "rate_limit_sleep"
    /\ sleep_left[w] = 0
    /\ pc' = [pc EXCEPT ![w] = "rate_limit_grant"]
    /\ UNCHANGED <<since_last_request, queue, vid, attempt, last_error,
                   sleep_left, initial_wav_files, audio_file, audio_dir,
                   archive_file, failed_downloads, future,
                   successful_downloads, failed_count, min_grant_gap, hist,
                   max_workers, main_pc, summary, extracted_hours_ago,
                   killed_at, video_json, metadata, has_grant, ungated_calls,
                   channel_info, choice, submitted, logs_at_start, runs,
                   notDl>>

\* rate_limit_wait line 133: self.last_request_time = time.time(); return.
\* The observer keeps the least time seen between a grant and the one before.
RateLimitGrant(w) ==
    /\ pc[w] = "rate_limit_grant"
    /\ since_last_request' = 0
    /\ min_grant_gap' = Min(min_grant_gap, since_last_request)
    /\ has_grant' = [has_grant EXCEPT ![w] = TRUE]
    /\ pc' = [pc EXCEPT ![w] = "fetch"]
    /\ UNCHANGED <<queue, vid, attempt, last_error, sleep_left,
                   initial_wav_files, audio_file, audio_dir, archive_file,
                   failed_downloads, future, successful_downloads,
                   failed_count, hist, max_workers, main_pc, summary,
                   extracted_hours_ago, killed_at, video_json, metadata,
                   ungated_calls, channel_info, choice, submitted,
                   logs_at_start, runs, notDl>>

Files(dir) == {dir[k] : k \in 1..Len(dir)}

\* max(new_wav_files, key=st_mtime): the file of S written last
MostRecent(dir, S) ==
    dir[CHOOSE k \in 1..Len(dir) :
            /\ dir[k] \in S
            /\ \A j \in 1..Len(dir) : dir[j] \in S => j <= k]

\* the directory after a tool wrote the file f: a new path, or the old path
\* rewritten (and so the most recent)
Written(dir, f) == Append(SelectSeq(dir, LAMBDA g : g # f), f)

\* a retry loop that sleeps after every failed attempt
ShouldBackoffAlways(a) == TRUE
\* line 386 and line 395: "if attempt < max_retries - 1" sleep before retrying
ShouldBackoff(a) == a < max_retries - 1

\* line 305: "for attempt in range(max_retries)": another iteration follows a
LoopContinuesOneMore(a) == a + 1 <= max_retries
LoopContinues(a) == a + 1 < max_retries

\* line 310: snapshot of the directory; line 331: the tool is started
FetchStart(w) ==
    /\ pc[w] = "fetch"
    /\ initial_wav_files' = [initial_wav_files EXCEPT ![w] = Files(audio_dir)]
    /\ hist' = [hist EXCEPT ![vid[w]] = NoSteps]
    /\ ToolCall(w, "audio")
    /\ pc' = [pc EXCEPT ![w] = "fetching"]
    /\ UNCHANGED <<since_last_request, queue, vid, attempt, last_error,
                   sleep_left, audio_file, audio_dir, archive_file,
                   failed_downloads, future, successful_downloads,
                   failed_count, min_grant_gap, max_workers, main_pc,
                   summary, extracted_hours_ago, killed_at, video_json,
                   metadata, channel_info, choice, submitted, logs_at_start,
                   runs, notDl>>

\* the end of an iteration that did not return: the loop goes on or is left
NextIteration(w) ==
    IF LoopContinues(attempt[w])
      THEN /\ attempt' = [attempt EXCEPT ![w] = @ + 1]
           /\ pc' = [pc EXCEPT ![w] = "rate_limit_wait"]
      ELSE /\ pc' = [pc EXCEPT ![w] = "write_failed"]
           /\ UNCHANGED attempt

\* a failed attempt (lines 370-398): last_error is set, then the backoff
\* sleep of at least (attempt + 1) seconds unless this was the last attempt
AfterFailure(w, err) ==
    /\ last_error' = [last_error EXCEPT ![w] = <<attempt[w], err>>]
    /\ initial_wav_files' = [initial_wav_files EXCEPT ![w] = {}]
    /\ IF ShouldBackoff(attempt[w])
         THEN /\ sleep_left' = [sleep_left EXCEPT ![w] = attempt[w] + 1]
              /\ pc' = [pc EXCEPT ![w] = "backoff"]
              /\ UNCHANGED attempt
         ELSE /\ UNCHANGED sleep_left
              /\ NextIteration(w)

\* subprocess.run raised (lines 391-398) or the tool exited non-zero
\* (lines 377-389)
FetchError(w) ==
    /\ pc[w] = "fetching"
    /\ \E err \in {"exception", "yt-dlp error"} : AfterFailure(w, err)
    /\ UNCHANGED <<since_last_request, queue, vid, audio_file, audio_dir,
                   archive_file, failed_downloads, future,
                   successful_downloads, failed_count, min_grant_gap, hist,
                   max_workers, main_pc, summary, extracted_hours_ago,
                   killed_at, video_json, metadata, has_grant, ungated_calls,
                   channel_info, choice, submitted, logs_at_start, runs,
                   notDl>>

\* the tool exited 0 (lines 333-343 and 370-376), having written the item's
\* file or not; the new files are the directory's gain since the snapshot
FetchExitZero(w) ==
    /\ pc[w] = "fetching"
    /\ \E wrote \in BOOLEAN :
        /\ audio_dir' = IF wrote THEN Written(audio_dir, vid[w]) ELSE audio_dir
        /\ LET new_wav_files == Files(audio_dir') \ initial_wav_files[w] IN
           IF new_wav_files # {}
             THEN /\ audio_file' = [audio_file EXCEPT
                                      ![w] = MostRecent(audio_dir', new_wav_files)]
                  /\ hist' = [hist EXCEPT ![vid[w]].fetched = "ok"]
                  /\ initial_wav_files' = [initial_wav_files EXCEPT ![w] = {}]
                  /\ pc' = [pc EXCEPT ![w] = "trim_silence"]
                  /\ UNCHANGED <<last_error, sleep_left, attempt>>
             ELSE /\ AfterFailure(w, "no new wav")
                  /\ UNCHANGED <<audio_file, hist>>
    /\ UNCHANGED <<since_last_request, queue, vid, archive_file,
                   failed_downloads, future, successful_downloads,
                   failed_count, min_grant_gap, max_workers, main_pc,
                   summary, extracted_hours_ago, killed_at, video_json,
                   metadata, has_grant, ungated_calls, channel_info, choice,
                   submitted, logs_at_start, runs, notDl>>

\* time.sleep(wait_time) of the retry is over: the next iteration
Backoff(w) ==
    /\ pc[w] = "backoff"
    /\ sleep_left[w] = 0
    /\ NextIteration(w)
    /\ UNCHANGED <<since_last_request, queue, vid, last_error, sleep_left,
                   initial_wav_files, audio_file, audio_dir, archive_file,
                   failed_downloads, future, successful_downloads,
                   failed_count, min_grant_gap, hist, max_workers, main_pc,
                   summary, extracted_hours_ago, killed_at, video_json,
                   metadata, has_grant, ungated_calls, channel_info, choice,
                   submitted, logs_at_start, runs, notDl>>

\* where download_video goes when trim_silence or transcribe_audio raised:
\* the handlers of lines 357-363 log the error and fall through to line 365
AfterStepError == "archive"

\* trim_silence(audio_file), lines 344-347 and 361-363; on success the file
\* at the path is the re-encoded one
TrimSilence(w) ==
    /\ pc[w] = "trim_silence"
    /\ \/ /\ audio_dir' = Written(audio_dir, audio_file[w])
          /\ hist' = [hist EXCEPT ![vid[w]].normalized = "ok"]
          /\ pc' = [pc EXCEPT ![w] = "transcribe_audio"]
       \/ /\ hist' = [hist EXCEPT ![vid[w]].normalized = "failed"]
          /\ pc' = [pc EXCEPT ![w] = AfterStepError]
          /\ UNCHANGED audio_dir
    /\ UNCHANGED <<since_last_request, queue, vid, attempt, last_error,
                   sleep_left, initial_wav_files, audio_file, archive_file,
                   failed_downloads, future, successful_downloads,
                   failed_count, min_grant_gap, max_workers, main_pc,
                   summary, extracted_hours_ago, killed_at, video_json,
                   metadata, has_grant, ungated_calls, channel_info, choice,
                   submitted, logs_at_start, runs, notDl>>

\* self.transcriber.transcribe_audio(...), lines 350-359
TranscribeAudio(w) ==
    /\ pc[w] = "transcribe_audio"
    /\ \/ /\ hist' = [hist EXCEPT ![vid[w]].transcribed = "ok"]
          /\ pc' = [pc EXCEPT ![w] = "archive"]
       \/ /\ hist' = [hist EXCEPT ![vid[w]].transcribed = "failed"]
          /\ pc' = [pc EXCEPT ![w] = AfterStepError]
    /\ UNCHANGED <<since_last_request, queue, vid, attempt, last_error,
                   sleep_left, initial_wav_files, audio_file, audio_dir,
                   archive_file, failed_downloads, future,
                   successful_downloads, failed_count, min_grant_gap,
                   max_workers, main_pc, summary, extracted_hours_ago,
                   killed_at, video_json, metadata, has_grant, ungated_calls,
                   channel_info, choice, submitted, logs_at_start, runs,
                   notDl>>

Returned(b, v) == [state |-> "done", result |-> <<b, v>>]

\* download_video returns: its locals are gone and the thread is free
Return(w) ==
    /\ pc' = [pc EXCEPT ![w] = "idle"]
    /\ vid' = [vid EXCEPT ![w] = NoVideo]
    /\ attempt' = [attempt EXCEPT ![w] = 0]
    /\ last_error' = [last_error EXCEPT ![w] = NoError]
    /\ audio_file' = [audio_file EXCEPT ![w] = NoVideo]
    /\ metadata' = [metadata EXCEPT ![w] = NoMetadata]
    /\ has_grant' = [has_grant EXCEPT ![w] = FALSE]

\* lines 378-382: the message of a non-zero exit of the tool holds a newline
\* after its first line, then the tool's stderr and stdout; the other
\* messages (lines 371-374 and 392) are taken to be of one line
ErrorLines(e) == IF e # NoError /\ e[2] = "yt-dlp error" THEN 2 ELSE 1

\* line 402: f.write(f"{video_id}\t{timestamp}\t{last_error}\n"), as the
\* lines it adds to the file (the timestamp left out): the line that starts
\* with the ID, then what follows the newlines of last_error
FailureRecord(v, e) ==
    <<<<v, e>>>> \o [k \in 1..(ErrorLines(e) - 1) |-> <<NoVideo, e>>]

\* lines 365-369: the success record, then return True, video_id
Archive(w) ==
    /\ pc[w] = "archive"
    /\ archive_file' = Append(archive_file, <<"youtube", vid[w]>>)
    /\ future' = [future EXCEPT ![vid[w]] = Returned(TRUE, vid[w])]
    /\ Return(w)
    /\ UNCHANGED <<since_last_request, queue, sleep_left, initial_wav_files,
                   audio_dir, failed_downloads, successful_downloads,
                   failed_count, min_grant_gap, hist, max_workers, main_pc,
                   summary, extracted_hours_ago, killed_at, video_json,
                   ungated_calls, channel_info, choice, submitted,
                   logs_at_start, runs, notDl>>

\* lines 400-403: the failure record is written, then return False, video_id
WriteFailed(w) ==
    /\ pc[w] = "write_failed"
    /\ failed_downloads' =
          failed_downloads \o FailureRecord(vid[w], last_error[w])
    /\ future' = [future EXCEPT ![vid[w]] = Returned(FALSE, vid[w])]
    /\ Return(w)
    /\ UNCHANGED <<since_last_request, queue, sleep_left, initial_wav_files,
                   audio_dir, archive_file, successful_downloads,
                   failed_count, min_grant_gap, hist, max_workers, main_pc,
                   summary, extracted_hours_ago, killed_at, video_json,
                   ungated_calls, channel_info, choice, submitted,
                   logs_at_start, runs, notDl>>

\* download_channel lines 498-504: one completed future is consumed
Collect ==
    \E v \in Videos :
        /\ main_pc = "as_completed"
        /\ future[v].state = "done"
        /\ future' = [future EXCEPT ![v].state = "collected"]
        /\ IF future[v].result[1]
             THEN /\ successful_downloads' = successful_downloads + 1
                  /\ UNCHANGED failed_count
             ELSE /\ failed_count' = failed_count + 1
                  /\ UNCHANGED successful_downloads
    /\ UNCHANGED <<since_last_request, queue, pc, vid, attempt, last_error,
                   sleep_left, initial_wav_files, audio_file, audio_dir,
                   archive_file, failed_downloads, min_grant_gap, hist,
                   max_workers, main_pc, summary, extracted_hours_ago,
                   killed_at, video_json, metadata, has_grant, ungated_calls,
                   channel_info, choice, submitted, logs_at_start, runs,
                   notDl>>

\* as_completed is exhausted and the executor's with block is left
\* (shutdown(wait=True)) as soon as one future was consumed
PoolDrainedAtFirst == \E v \in Videos : future[v].state = "collected"
\* lines 493-504: as_completed is exhausted and the executor's with block is
\* left (shutdown(wait=True)) when every future was consumed
PoolDrained == \A v \in Videos : future[v].state = "collected"

\* lines 506-510: the session's counters are logged
LeavePool ==
    /\ main_pc = "as_completed"
    /\ PoolDrained
    /\ main_pc' = "create_download_summary"
    /\ UNCHANGED <<since_last_request, queue, pc, vid, attempt, last_error,
                   sleep_left, initial_wav_files, audio_file, audio_dir,
                   archive_file, failed_downloads, future,
                   successful_downloads, failed_count, min_grant_gap, hist,
                   max_workers, summary, extracted_hours_ago, killed_at,
                   video_json, metadata, has_grant, ungated_calls,
                   channel_info, choice, submitted, logs_at_start, runs,
                   notDl>>

\* create_download_summary (lines 515-542): the counts are the numbers of
\* lines of the two log files; any exception is logged and swallowed
CreateDownloadSummary ==
    /\ main_pc = "create_download_summary"
    /\ \/ summary' = <<Len(archive_file), Len(failed_downloads)>>
       \/ UNCHANGED summary
    /\ main_pc' = "done"
    /\ UNCHANGED <<since_last_request, queue, pc, vid, attempt, last_error,
                   sleep_left, initial_wav_files, audio_file, audio_dir,
                   archive_file, failed_downloads, future,
                   successful_downloads, failed_count, min_grant_gap, hist,
                   max_workers, extracted_hours_ago, killed_at, video_json,
                   metadata, has_grant, ungated_calls, channel_info, choice,
                   submitted, logs_at_start, runs, notDl>>

DlNext ==
    \/ Tick
    \/ Collect
    \/ LeavePool
    \/ CreateDownloadSummary
    \/ \E w \in Workers :
          \/ StartTask(w)
          \/ GetVideoMetadata(w)
          \/ RateLimitRead(w)
          \/ RateLimitSleep(w)
          \/ RateLimitGrant(w)
          \/ FetchStart(w)
          \/ FetchError(w)
          \/ FetchExitZero(w)
          \/ Backoff(w)
          \/ TrimSilence(w)
          \/ TranscribeAudio(w)
          \/ Archive(w)
          \/ WriteFailed(w)

\* the steps of the pool thread w
WorkerStep(w) ==
    \/ StartTask(w)
    \/ GetVideoMetadata(w)
    \/ RateLimitRead(w)
    \/ RateLimitSleep(w)
    \/ RateLimitGrant(w)
    \/ FetchStart(w)
    \/ FetchError(w)
    \/ FetchExitZero(w)
    \/ Backoff(w)
    \/ TrimSilence(w)
    \/ TranscribeAudio(w)
    \/ Archive(w)
    \/ WriteFailed(w)

\* time passes, every thread that can take a step takes one in the end (the
\* threads are scheduled by the operating system), and every external call
\* (the tool, trim_silence, transcribe_audio) returns or raises
DlFairness ==
    /\ WF_vars(Tick)
    /\ WF_vars(Collect)
    /\ WF_vars(LeavePool)
    /\ WF_vars(CreateDownloadSummary)
    /\ \A w \in Workers : WF_vars(WorkerStep(w))

\* a pool of MaxWorkers threads, empty logs, no stored extraction timestamp,
\* the source gives the metadata of every video
FairInit ==
    /\ GetMetadataInit
    /\ video_json = [v \in Videos |-> "json"]

\* SIGINT: setup_signal_handlers is never called, so Python's default handler
\* raises KeyboardInterrupt in the main thread.  Inside the with block the
\* executor's __exit__ then waits for every submitted task, started or not;
\* inside create_download_summary "except Exception" does not catch it.
Sigint ==
    /\ main_pc \in {"as_completed", "create_download_summary"}
    /\ main_pc' = IF main_pc = "as_completed" THEN "interrupted" ELSE "exited"
    /\ UNCHANGED <<since_last_request, queue, pc, vid, attempt, last_error,
                   sleep_left, initial_wav_files, audio_file, audio_dir,
                   archive_file, failed_downloads, future,
                   successful_downloads, failed_count, min_grant_gap, hist,
                   max_workers, summary, extracted_hours_ago, killed_at,
                   video_json, metadata, has_grant, ungated_calls,
                   channel_info, choice, submitted, logs_at_start, runs,
                   notDl>>

\* the executor's __exit__ returns; main's "except Exception" does not catch
\* KeyboardInterrupt and the process exits
ExitAfterInterrupt ==
    /\ main_pc = "interrupted"
    /\ queue = <<>>
    /\ \A v \in Videos : future[v].state \in {"done", "collected"}
    /\ main_pc' = "exited"
    /\ UNCHANGED <<since_last_request, queue, pc, vid, attempt, last_error,
                   sleep_left, initial_wav_files, audio_file, audio_dir,
                   archive_file, failed_downloads, future,
                   successful_downloads, failed_count, min_grant_gap, hist,
                   max_workers, summary, extracted_hours_ago, killed_at,
                   video_json, metadata, has_grant, ungated_calls,
                   channel_info, choice, submitted, logs_at_start, runs,
                   notDl>>

\* SIGTERM: no handler is installed (setup_signal_handlers is never called),
\* the default action ends the process with all its threads at once
Sigterm ==
    /\ main_pc \in {"as_completed", "interrupted", "create_download_summary"}
    /\ main_pc' = "killed"
    /\ killed_at' = pc
    /\ pc' = [w \in Workers |-> "killed"]
    /\ UNCHANGED <<since_last_request, queue, vid, attempt, last_error,
                   sleep_left, initial_wav_files, audio_file, audio_dir,
                   archive_file, failed_downloads, future,
                   successful_downloads, failed_count, min_grant_gap, hist,
                   max_workers, summary, extracted_hours_ago, video_json,
                   metadata, has_grant, ungated_calls, channel_info, choice,
                   submitted, logs_at_start, runs, notDl>>

SignalNext ==
    \/ DlNext
    \/ Sigint
    \/ ExitAfterInterrupt
    \/ Sigterm

\* ------------------------------------------------------------------------
\* download_channel up to the pool, over several runs of the program on one
\* channel: the enumeration, the archive filter and the selection.  The pool
\* is taken by its outcome, one record per submitted video.
\* ------------------------------------------------------------------------
MaxRuns == 3

\* the sequences of distinct video IDs the channel may list
Enumerations ==
    {s \in UNION {[1..n -> Videos] : n \in 0..NumVideos} :
        \A j, k \in 1..Len(s) : j # k => s[j] # s[k]}

\* what the source gives to get_channel_info: a non-zero exit, output that
\* does not parse, or the channel's entries
ChannelInfos ==
    {[returncode |-> 1, parsed |-> FALSE, entries |-> <<>>],
     [returncode |-> 0, parsed |-> FALSE, entries |-> <<>>]}
    \cup {[returncode |-> 0, parsed |-> TRUE, entries |-> e] : e \in Enumerations}

\* get_channel_info lines 157-197: RuntimeError on a non-zero exit and on
\* output that json.loads rejects
GetChannelInfoRaises(info) == info.returncode # 0 \/ ~info.parsed

\* an empty enumeration is taken like any other
NoVideosNever(vs) == FALSE
\* line 448: "if not videos"
NoVideos(vs) == vs = <<>>

\* line 460: set(line.strip().split()[1] for line in f)
DownloadedVideos(archive) == {archive[k][2] : k \in 1..Len(archive)}

\* the answers prompt_for_video_count accepts (lines 220-240), but '5'
Choices(total_videos) ==
    {[option |-> "1", num |-> 0, video |-> NoVideo]}
    \cup {[option |-> o, num |-> n, video |-> NoVideo] :
             o \in {"2", "3"}, n \in 1..total_videos}
    \cup {[option |-> "4", num |-> 0, video |-> v] : v \in Videos \cup {OldVideo}}

\* prompt_for_video_count lines 226, 229 and 240:
\* (num_videos, newest_first, specific_video)
PromptForVideoCount(c, total_videos, existing_count) ==
    CASE c.option = "1" -> <<total_videos - existing_count, TRUE, NoVideo>>
      [] c.option = "2" -> <<c.num, FALSE, NoVideo>>
      [] c.option = "3" -> <<c.num, TRUE, NoVideo>>
      [] c.option = "4" -> <<0 - 1, FALSE, c.video>>

\* every listed video, archived or not
AvailableAll(vs, downloaded) == vs
\* line 475: [v for v in videos if v['id'] not in downloaded_videos]
Available(vs, downloaded) == SelectSeq(vs, LAMBDA v : v \notin downloaded)

\* line 483: available_videos[::-1]
Reverse(s) == [k \in 1..Len(s) |-> s[Len(s) + 1 - k]]

\* a slice that takes one element more
SliceOneMore(s, n) == SubSeq(s, 1, Min(n + 1, Len(s)))
\* line 486: the slice s[:n] of Python, n negative counting from the end
Slice(s, n) ==
    IF n >= 0 THEN SubSeq(s, 1, Min(n, Len(s)))
              ELSE SubSeq(s, 1, Max(Len(s) + n, 0))

\* lines 475-486
VideosToDownload(vs, downloaded, num_videos, newest_first) ==
    LET available_videos == Available(vs, downloaded) IN
    Slice(IF newest_first THEN Reverse(available_videos) ELSE available_videos,
          num_videos)

\* the program is started on the channel; the logs are empty or hold the
\* record of a video the channel does not list
SelInit ==
    /\ main_pc = "start"
    /\ runs = 0
    /\ archive_file \in {<<>>, <<<<"youtube", OldVideo>>>>}
    /\ failed_downloads = <<>>
    /\ logs_at_start = <<archive_file, failed_downloads>>
    /\ queue = <<>>
    /\ channel_info = NoInfo /\ choice = NoChoice /\ submitted = <<>>
    /\ successful_downloads = 0 /\ failed_count = 0
    /\ summary = NoSummary
    /\ since_last_request = 0
    /\ pc = <<>> /\ vid = <<>> /\ attempt = <<>> /\ last_error = <<>>
    /\ sleep_left = <<>> /\ initial_wav_files = <<>> /\ audio_file = <<>>
    /\ audio_dir = <<>> /\ future = <<>>
    /\ min_grant_gap = 0 /\ hist = <<>>
    /\ max_workers = 0
    /\ extracted_hours_ago = <<>> /\ killed_at = <<>>
    /\ video_json = <<>> /\ metadata = <<>> /\ has_grant = <<>>
    /\ ungated_calls = {}

\* download_channel lines 447-495 in a new run of the program: the
\* enumeration, the archive, the prompt, then the tasks are submitted, the
\* single video is taken (lines 466-472, download_single_video lines
\* 417-435) or the run ends
DownloadChannel ==
    /\ main_pc \in {"start", "raised", "returned", "done"}
    /\ runs < MaxRuns
    /\ runs' = runs + 1
    /\ logs_at_start' = <<archive_file, failed_downloads>>
    /\ successful_downloads' = 0
    /\ failed_count' = 0
    /\ \E info \in ChannelInfos :
        /\ channel_info' = info
        /\ IF GetChannelInfoRaises(info) \/ NoVideos(info.entries)
             THEN /\ main_pc' = "raised"
                  /\ choice' = NoChoice
                  /\ queue' = <<>>
                  /\ submitted' = <<>>
             ELSE \E c \in Choices(Len(info.entries)), found \in BOOLEAN :
                    LET downloaded_videos == DownloadedVideos(archive_file)
                        p == PromptForVideoCount(c, Len(info.entries),
                                                 Cardinality(downloaded_videos))
                        videos_to_download_now ==
                            IF p[3] # NoVideo
                              THEN IF found /\ p[3] \notin downloaded_videos
                                     THEN <<p[3]>> ELSE <<>>
                              ELSE VideosToDownload(info.entries,
                                       downloaded_videos, p[1], p[2])
                    IN  /\ choice' = c
                        /\ queue' = videos_to_download_now
                        /\ submitted' = videos_to_download_now
                        /\ main_pc' =
                              IF p[3] # NoVideo THEN "single"
                              ELSE IF Available(info.entries,
                                                downloaded_videos) = <<>>
                                     THEN "returned" ELSE "pool"
    /\ UNCHANGED <<since_last_request, pc, vid, attempt, last_error,
                   sleep_left, initial_wav_files, audio_file, audio_dir,
                   archive_file, failed_downloads, future, min_grant_gap,
                   hist, max_workers, summary, extracted_hours_ago,
                   killed_at, video_json, metadata, has_grant, ungated_calls,
                   notDl>>

\* download_video for the next task, by its outcome: the success record
\* (lines 365-369) or the failure record (lines 400-403); lines 499-503
\* count it in a batch run
TaskDone ==
    /\ main_pc \in {"pool", "single"}
    /\ queue # <<>>
    /\ queue' = Tail(queue)
    /\ \/ /\ archive_file' = Append(archive_file, <<"youtube", Head(queue)>>)
          /\ successful_downloads' =
                successful_downloads + IF main_pc = "pool" THEN 1 ELSE 0
          /\ UNCHANGED <<failed_downloads, failed_count>>
       \/ /\ \E err \in {"exception", "yt-dlp error"} :
                failed_downloads' = failed_downloads \o
                    FailureRecord(Head(queue), <<max_retries - 1, err>>)
          /\ failed_count' = failed_count + IF main_pc = "pool" THEN 1 ELSE 0
          /\ UNCHANGED <<archive_file, successful_downloads>>
    /\ UNCHANGED <<since_last_request, pc, vid, attempt, last_error,
                   sleep_left, initial_wav_files, audio_file, audio_dir,
                   future, min_grant_gap, hist, max_workers, main_pc,
                   summary, extracted_hours_ago, killed_at, video_json,
                   metadata, has_grant, ungated_calls, channel_info, choice,
                   submitted, logs_at_start, runs, notDl>>

\* the tasks are over: lines 506-513 with the summary in a batch run, line
\* 472 for a single video
EndRun ==
    /\ main_pc \in {"pool", "single"}
    /\ queue = <<>>
    /\ IF main_pc = "pool"
         THEN /\ summary' = <<Len(archive_file), Len(failed_downloads)>>
              /\ main_pc' = "done"
         ELSE /\ UNCHANGED summary
              /\ main_pc' = "returned"
    /\ UNCHANGED <<since_last_request, queue, pc, vid, attempt, last_error,
                   sleep_left, initial_wav_files, audio_file, audio_dir,
                   archive_file, failed_downloads, future,
                   successful_downloads, failed_count, min_grant_gap, hist,
                   max_workers, extracted_hours_ago, killed_at, video_json,
                   metadata, has_grant, ungated_calls, channel_info, choice,
                   submitted, logs_at_start, runs, notDl>>

SelNext ==
    \/ DownloadChannel
    \/ TaskDone
    \/ EndRun

\* ------------------------------------------------------------------------
\* Claims about DownloadManager (checked under Spec)
\* ------------------------------------------------------------------------
InArchive(v) == \E k \in 1..Len(archive_file) : archive_file[k] = <<"youtube", v>>
FailureRecords(v) == {k \in 1..Len(failed_downloads) : failed_downloads[k][1] = v}
HasReturned(v) == future[v].state \in {"done", "collected"}
AllStepsOk == [fetched |-> "ok", normalized |-> "ok", transcribed |-> "ok"]

\* C1: any two consecutive grants of rate_limit_wait are at least rate_limit
\* seconds apart, also with two or more worker threads calling it.
C1_GrantsSpaced == min_grant_gap >= rate_limit

\* C2: an item whose transcription fails ends as failed (a failure record,
\* no success record), and an item whose steps all succeed gets its success
\* record.
C2_TranscriptionFailureIsFailure ==
    \A v \in Videos :
        HasReturned(v) =>
            /\ hist[v].transcribed = "failed" =>
                   FailureRecords(v) # {} /\ ~InArchive(v)
            /\ hist[v] = AllStepsOk => InArchive(v)

\* C3: download_video runs the fetch tool at most max_retries times for an
\* item; when every attempt failed it has appended exactly one failure record,
\* which carries the error of the last attempt, no success record, and it
\* returned (False, video_id) to the scheduler, which counts it as failed.
C3_RetryBoundAndFailureRecord ==
    /\ \A w \in Workers : attempt[w] < max_retries
    /\ \A v \in Videos :
        /\ HasReturned(v) => future[v].result \in {<<TRUE, v>>, <<FALSE, v>>}
        /\ (HasReturned(v) /\ hist[v].fetched # "ok") =>
              /\ future[v].result = <<FALSE, v>>
              /\ Cardinality(FailureRecords(v)) = 1
              /\ \A k \in FailureRecords(v) :
                    failed_downloads[k][2][1] = max_retries - 1
              /\ ~InArchive(v)
    /\ failed_count =
          Cardinality({v \in Videos : /\ future[v].state = "collected"
                                      /\ future[v].result = <<FALSE, v>>})

C3_Witness ==
    \E v \in Videos :
        /\ future[v].state = "collected"
        /\ future[v].result = <<FALSE, v>>
        /\ failed_count >= 1
        /\ \E u \in Videos : u # v /\ future[u].result = <<TRUE, u>>

\* C4: a success record for an item is appended only after, in the same
\* attempt, its audio was fetched, normalized successfully and transcribed
\* successfully.
C4_RecordedOnlyAfterAllSteps ==
    \A v \in Videos : InArchive(v) => hist[v] = AllStepsOk

\* the item's stored extraction timestamp is less than 24 hours old
StoredFresh(v) ==
    extracted_hours_ago[v] # NoneTime /\ extracted_hours_ago[v] < FreshHours

\* C14: for an item whose stored extraction timestamp is less than 24 hours
\* old the fetch worker makes no external call (no metadata fetch, no audio
\* fetch, no normalization, no transcription): it never gets past the start
\* of download_video and its attempt shows no step.
C14_FreshItemNoExternalCall ==
    \A v \in Videos :
        StoredFresh(v) =>
            /\ hist[v] = NoSteps
            /\ \A w \in Workers :
                  vid[w] = v => pc[w] \in {"get_video_metadata", "killed"}
            /\ ~InArchive(v)

InFlight == {v \in Videos : future[v].state = "running"}

\* C17: at no time are more than max_workers items in flight, so no more
\* than max_workers workers are in the transcriber at once.
C17_AtMostMaxWorkersInFlight ==
    /\ Cardinality(InFlight) <= max_workers
    /\ Cardinality({w \in Workers : vid[w] # NoVideo}) <= max_workers
    /\ Cardinality({w \in Workers : pc[w] = "transcribe_audio"}) <= max_workers

C17_Witness ==
    /\ max_workers < NumVideos
    /\ Cardinality(InFlight) = max_workers
    /\ queue # <<>>
    /\ \E w \in Workers : pc[w] = "transcribe_audio"

\* the number of tasks of video v: submitted and waiting, running, returned
Tasks(v) ==
    Cardinality({k \in 1..Len(queue) : queue[k] = v})
      + Cardinality({w \in Workers : vid[w] = v})
      + (IF HasReturned(v) THEN 1 ELSE 0)

\* C18: every selected item has exactly one download_video task; when the
\* pool run is over every one of them has given exactly one result, and
\* successful_downloads + failed_downloads is the number of items submitted.
C18_OneTaskOneResultPerItem ==
    /\ main_pc \in {"as_completed", "create_download_summary", "done"} =>
          \A v \in Videos : Tasks(v) = 1
    /\ successful_downloads + failed_count
          = Cardinality({v \in Videos : future[v].state = "collected"})
    /\ main_pc \in {"create_download_summary", "done"} =>
          /\ \A v \in Videos :
                /\ future[v].state = "collected"
                /\ future[v].result \in {<<TRUE, v>>, <<FALSE, v>>}
          /\ \A w \in Workers : pc[w] = "idle"
          /\ successful_downloads + failed_count = Len(videos_to_download)

C18_Witness ==
    /\ main_pc = "done"
    /\ max_workers = MaxWorkers
    /\ future[1].result = <<FALSE, 1>>
    /\ future[NumVideos].result = <<TRUE, NumVideos>>
    /\ successful_downloads >= 1
    /\ failed_count >= 1

\* C19: the session summary is written only when all workers have completed,
\* whatever they returned, and its successful and failed counts are the
\* counts of this session, also when the logs hold records of earlier
\* sessions.
C19_SummaryCountsThisSession ==
    summary # NoSummary =>
        /\ main_pc \in {"done", "exited", "killed"}
        /\ \A v \in Videos : future[v].state = "collected"
        /\ summary = <<successful_downloads, failed_count>>

\* C20: when the process has ended after a termination signal, no item was
\* cut off in flight: every worker had finished its attempt, its file writes
\* and its log record.
C20_InFlightFinishBeforeExit ==
    /\ main_pc = "exited" => \A w \in Workers : pc[w] = "idle"
    /\ main_pc = "killed" => \A w \in Workers : killed_at[w] = "idle"

\* C28: under every interleaving of the workers sharing audio_dir, the file a
\* worker normalizes and transcribes for an item is the file fetched for that
\* item, never a file created by another worker.
C28_WorkerPicksOwnFile ==
    \A w \in Workers :
        pc[w] \in {"trim_silence", "transcribe_audio"} => audio_file[w] = vid[w]

\* C21: every call of download_video appends exactly one log line for its
\* outcome: one line to the success archive and none to the failure log when
\* it returns success, one line to the failure log and none to the archive
\* when it returns failure; no other step of the pool writes to a log.
C21_OneLogLinePerCall ==
    [][LET a == Len(archive_file') - Len(archive_file)
           f == Len(failed_downloads') - Len(failed_downloads)
           returning == {v \in Videos : /\ future[v].state = "running"
                                        /\ future'[v].state = "done"}
       IN  /\ \A v \in returning :
                 IF future'[v].result[1] THEN a = 1 /\ f = 0
                                         ELSE a = 0 /\ f = 1
           /\ returning = {} => a = 0 /\ f = 0]_vars

\* C22: under every interleaving of the workers each log holds whole
\* records only, one per line: every line of the success archive is
\* "youtube <id>" and every line of the failure log starts with the ID of
\* the item it is about.
C22_WholeRecordsOnly ==
    /\ \A k \in 1..Len(archive_file) :
          archive_file[k] \in {<<"youtube", v>> : v \in Videos \cup {OldVideo}}
    /\ \A k \in 1..Len(failed_downloads) :
          failed_downloads[k][1] \in Videos \cup {OldVideo}

\* the errors an attempt of the audio fetch ends with
FetchErrors == {"exception", "yt-dlp error", "no new wav"}

\* C23: a failed metadata fetch is not fatal in the worker: download_video
\* goes on to the audio fetch, and it gives up only after max_retries failed
\* attempts of the audio fetch, writing the error of the last of them.
C23_MetadataFailureNotFatal ==
    /\ \A w \in Workers :
          /\ pc[w] \in {"rate_limit_wait", "rate_limit_sleep", "rate_limit_grant",
                        "fetch", "fetching", "backoff", "trim_silence",
                        "transcribe_audio", "archive", "write_failed"}
                => metadata[w] \in {"useful_metadata", "None"}
          /\ pc[w] = "write_failed" =>
                /\ attempt[w] = max_retries - 1
                /\ last_error[w] # NoError
                /\ last_error[w][2] \in FetchErrors
    /\ \A v \in Videos :
          (HasReturned(v) /\ future[v].result = <<FALSE, v>>) =>
              hist[v].fetched # "ok"

C23_Witness ==
    \E u \in Videos :
        /\ video_json[u] = "error"
        /\ future[u].result = <<TRUE, u>>
        /\ hist[u] = AllStepsOk
        /\ InArchive(u)

\* C24: every call of the fetch tool made for an item, the metadata fetch
\* and every attempt of the audio fetch, comes after a grant of
\* rate_limit_wait that the worker took after its call before.
C24_EveryToolCallGated == ungated_calls = {}

\* the IDs of a sequence of videos
Ids(s) == {s[k] : k \in 1..Len(s)}

\* C25: when the source call exits non-zero or gives unparsable data, or
\* zero items are found, download_channel raises, submits nothing to the
\* pool and appends nothing to the success archive or the failure log.
C25_EnumerationFailureStopsRun ==
    (runs > 0 /\ (channel_info.returncode # 0 \/ ~channel_info.parsed
                    \/ channel_info.entries = <<>>)) =>
        /\ main_pc = "raised"
        /\ queue = <<>>
        /\ submitted = <<>>
        /\ <<archive_file, failed_downloads>> = logs_at_start

C25_Witness ==
    /\ runs > 1
    /\ main_pc = "raised"
    /\ channel_info.returncode = 0 /\ channel_info.parsed
    /\ channel_info.entries = <<>>
    /\ Len(archive_file) > 1
    /\ failed_downloads # <<>>

\* C29: over any sequence of runs, a video whose ID is in the success
\* archive when a batch run starts is not submitted to the pool in that run,
\* and no video ever has two success records.
C29_ArchivedNeverResubmitted ==
    /\ choice.option \in {"1", "2", "3"} =>
          Ids(submitted) \cap DownloadedVideos(logs_at_start[1]) = {}
    /\ \A j, k \in 1..Len(archive_file) :
          j # k => archive_file[j] # archive_file[k]

C29_Witness ==
    /\ runs = MaxRuns
    /\ choice.option = "3"
    /\ main_pc = "done"
    /\ submitted # <<>>
    /\ Ids(channel_info.entries) \cap DownloadedVideos(logs_at_start[1]) # {}
    /\ Len(archive_file) > Len(logs_at_start[1])

\* C30: with the selection "all new" the videos scheduled are exactly the
\* listed videos that have no record in the success archive, whatever IDs
\* the archive holds.
C30_AllNewSchedulesEveryNewVideo ==
    (choice.option = "1" /\ main_pc \in {"pool", "done", "returned"}) =>
        Ids(submitted) =
            Ids(channel_info.entries) \ DownloadedVideos(logs_at_start[1])

\* the listed videos without a record in the archive the run started with,
\* in the order of the enumeration
NonArchived ==
    LET e == channel_info.entries
        old == {logs_at_start[1][k][2] : k \in 1..Len(logs_at_start[1])}
        F[k \in 0..Len(e)] ==
            IF k = 0 THEN <<>>
            ELSE IF e[k] \in old THEN F[k - 1] ELSE Append(F[k - 1], e[k])
    IN  F[Len(e)]

\* C31: with the selection "N oldest" or "N newest" the scheduled list has
\* min(N, number of non-archived videos) entries, all listed, non-archived
\* and distinct; for option 2 it is a prefix of the non-archived videos in
\* the order of the enumeration, for option 3 a prefix of them in reverse.
C31_NSelectionIsPrefix ==
    (choice.option \in {"2", "3"} /\ main_pc \in {"pool", "done", "returned"}) =>
        LET n == Min(choice.num, Len(NonArchived)) IN
        /\ Len(submitted) = n
        /\ \A j, k \in 1..Len(submitted) : j # k => submitted[j] # submitted[k]
        /\ \A k \in 1..n :
              submitted[k] = IF choice.option = "2"
                               THEN NonArchived[k]
                               ELSE NonArchived[Len(NonArchived) + 1 - k]

C31_Witness ==
    /\ choice.option = "3"
    /\ choice.num = 1
    /\ Len(NonArchived) = 2
    /\ submitted = <<NonArchived[2]>>
    /\ main_pc = "done"


\* C36: a fetch attempt counts as successful only if the directory gained a
\* new *.wav path during the attempt; so the item whose audio file was there
\* before its first attempt never has a successful fetch and never gets an
\* archive record: it ends in the failure log after max_retries attempts.
C36_LeftoverFileNeverFetched ==
    /\ hist[videos_to_download[1]].fetched # "ok"
    /\ ~InArchive(videos_to_download[1])
    /\ HasReturned(videos_to_download[1]) =>
          /\ future[videos_to_download[1]].result[1] = FALSE
          /\ Cardinality(FailureRecords(videos_to_download[1])) >= 1

\* C39: when every external call returns, a batch run terminates: no item
\* has more than max_retries attempts, a backoff sleep follows a failed
\* attempt only when another attempt comes after it (so at most
\* max_retries - 1 of them for an item), download_channel returns in the
\* end, and when it has returned every submitted item has its terminal
\* outcome, success or failed.
C39_BatchRunTerminates ==
    /\ [](/\ \A w \in Workers :
                /\ attempt[w] < max_retries
                /\ pc[w] = "backoff" => attempt[w] < max_retries - 1
          /\ main_pc = "done" =>
                \A v \in Videos :
                    /\ future[v].state = "collected"
                    /\ InArchive(v) \/ FailureRecords(v) # {})
    /\ <>(main_pc = "done")

C39_Witness ==
    /\ main_pc = "done"
    /\ \E k \in 1..Len(failed_downloads) :
          failed_downloads[k][2][1] = max_retries - 1
    /\ successful_downloads = 1
    /\ failed_count = 1

\* ------------------------------------------------------------------------
\* process_channel: the chunking loop and the two store writes for one item
\* ------------------------------------------------------------------------
CHUNK_SIZE == 100
batch_size == 100
MaxSegs == 3
MaxT == 2

\* ---- strings ----
Space == " "

RECURSIVE LStrip(_)
LStrip(s) == IF s # <<>> /\ Head(s) = Space THEN LStrip(Tail(s)) ELSE s

RECURSIVE RStrip(_)
RStrip(s) ==
    IF s # <<>> /\ s[Len(s)] = Space THEN RStrip(SubSeq(s, 1, Len(s) - 1)) ELSE s

\* str.strip()
Strip(s) == RStrip(LStrip(s))

\* len(s.split()): the number of maximal runs of non-space characters
WordCount(s) ==
    Cardinality({k \in 1..Len(s) : s[k] # Space /\ (k = 1 \/ s[k - 1] = Space)})

\* str(i) of a non-negative integer
Digit(d) == <<"0", "1", "2", "3", "4", "5", "6", "7", "8", "9">>[d + 1]
RECURSIVE Str(_)
Str(n) == IF n < 10 THEN <<Digit(n)>> ELSE Str(n \div 10) \o <<Digit(n % 10)>>

\* line 161: f"{channel_id}-{video_id}-{i}"
MakeId(c, v, n) == c \o <<"-">> \o v \o <<"-">> \o Str(n)

\* "if not start_time": None and 0.0 are both falsy
Falsy(x) == x = NoneTime \/ x = 0

\* float(x) of a number read from JSON keeps its value
Float(x) == x

\* the test of line 148 without its "last segment" disjunct
ClosesNeverAtLast(chunk, idx, n) == WordCount(chunk) >= CHUNK_SIZE
\* a window per segment
ClosesAlways(chunk, idx, n) == TRUE
\* line 148: the window closes on this segment
Closes(chunk, idx, n) == WordCount(chunk) >= CHUNK_SIZE \/ idx = n - 1

\* the number of windows closed before as the ordinal
IdOrdinalWindow(idx, closed) == closed
\* an ordinal that goes on from the rows already stored
IdOrdinalStored(idx, closed) == idx + Cardinality(transcript_chunks)
\* line 161: the ordinal put into the ID, given the segment index and the
\* number of windows closed before
IdOrdinal(idx, closed) == idx

\* ---- inputs ----
Letter(j) == <<"a", "b", "c", "d", "e", "f">>[j]

\* a segment text as the transcriber writes it: a leading space, then n
\* one-letter words separated by single spaces
Text(n, ch) ==
    IF n = 0 THEN <<Space>>
    ELSE [k \in 1..(2 * n) |-> IF k % 2 = 1 THEN Space ELSE ch]

WordCounts == {0, 60, 100}
ItemIds == {<<<<"a", "-", "b">>, <<"c">>>>}

SegmentSeqs ==
    UNION {
      { [j \in 1..n |-> [start |-> st[j], end |-> st[j] + 1,
                         text |-> Text(wc[j], Letter(j))]] :
          st \in {f \in [1..n -> 0..MaxT] :
                    \A j \in 1..(n - 1) : f[j] <= f[j + 1]},
          wc \in [1..n -> WordCounts] }
      : n \in 0..MaxSegs }

ChunkInit ==
    /\ epc = "chunking"
    /\ \E item \in ItemIds : channel_id = item[1] /\ video_id = item[2]
    /\ segments \in SegmentSeqs
    /\ i = 0
    /\ current_chunk = <<>>
    /\ start_time = NoneTime
    /\ texts = <<>>
    /\ metadatas = <<>>
    /\ ids = <<>>
    /\ pg_chunks = <<>>
    /\ transcript_chunks = {}
    /\ chroma = {}

\* lines 143-163: one iteration of "for i, seg in enumerate(segments)"
ChunkSegment ==
    /\ epc = "chunking"
    /\ i < Len(segments)
    /\ LET seg == segments[i + 1]
           st == IF Falsy(start_time) THEN seg.start ELSE start_time
           chunk == current_chunk \o Strip(seg.text) \o <<Space>>
       IN  IF Closes(chunk, i, Len(segments))
             THEN /\ texts' = Append(texts, Strip(chunk))
                  /\ metadatas' = Append(metadatas,
                        [video_id |-> video_id, channel_id |-> channel_id,
                         start |-> Float(st), end |-> Float(seg.end)])
                  /\ ids' = Append(ids,
                        MakeId(channel_id, video_id, IdOrdinal(i, Len(ids))))
                  /\ current_chunk' = <<>>
                  /\ start_time' = NoneTime
             ELSE /\ current_chunk' = chunk
                  /\ start_time' = st
                  /\ UNCHANGED <<texts, metadatas, ids>>
    /\ i' = i + 1
    /\ UNCHANGED <<epc, channel_id, video_id, segments, pg_chunks,
                   transcript_chunks, chroma, notChunk>>

\* lines 168-176: the row of the idx-th (from 0) chunk
PgRowOwnId(idx) ==
    [id |-> MakeId(channel_id, video_id, idx),
     video_id |-> metadatas[idx + 1].video_id,
     channel_id |-> metadatas[idx + 1].channel_id,
     chunk_index |-> idx,
     start_time |-> metadatas[idx + 1].start,
     end_time |-> metadatas[idx + 1].end,
     text |-> texts[idx + 1]]
PgRow(idx) ==
    [id |-> ids[idx + 1],
     video_id |-> metadatas[idx + 1].video_id,
     channel_id |-> metadatas[idx + 1].channel_id,
     chunk_index |-> idx,
     start_time |-> metadatas[idx + 1].start,
     end_time |-> metadatas[idx + 1].end,
     text |-> texts[idx + 1]]

\* lines 165-176: the loop is over; pg_chunks is built from the three lists
BuildPgChunks ==
    /\ epc = "chunking"
    /\ i = Len(segments)
    /\ pg_chunks' = [k \in 1..Min(Len(texts), Len(metadatas)) |-> PgRow(k - 1)]
    /\ epc' = "insert_transcript_chunks"
    /\ UNCHANGED <<channel_id, video_id, segments, i, current_chunk, start_time,
                   texts, metadatas, ids, transcript_chunks, chroma,
                   notChunk>>

\* INSERT ... ON CONFLICT (id) DO UPDATE SET start_time, end_time, text
UpsertRow(table, row) ==
    IF \E r \in table : r.id = row.id
      THEN {IF r.id = row.id
              THEN [r EXCEPT !.start_time = row.start_time,
                             !.end_time = row.end_time, !.text = row.text]
              ELSE r : r \in table}
      ELSE table \cup {row}

RECURSIVE UpsertRows(_, _)
\* a statement that writes the first row of the list only
UpsertRowsFirstOnly(table, rows) ==
    IF rows = <<>> THEN table ELSE UpsertRow(table, Head(rows))
\* a statement that first deletes the rows of the items it writes
ReplaceRows(table, rows) ==
    {r \in table : \A k \in 1..Len(rows) : r.video_id # rows[k].video_id}
        \cup {rows[k] : k \in 1..Len(rows)}
UpsertRows(table, rows) ==
    IF rows = <<>> THEN table
    ELSE UpsertRows(UpsertRow(table, Head(rows)), Tail(rows))

\* insert_transcript_chunks (db_client lines 61-80), called at lines 178-182:
\* nothing for an empty list, else all rows in one statement or a database
\* error, on which process_channel goes on to the next item
InsertTranscriptChunks ==
    /\ epc = "insert_transcript_chunks"
    /\ \/ /\ pg_chunks = <<>>
          /\ epc' = "collection_add"
          /\ UNCHANGED transcript_chunks
       \/ /\ pg_chunks # <<>>
          /\ transcript_chunks' = UpsertRows(transcript_chunks, pg_chunks)
          /\ epc' = "collection_add"
       \/ /\ pg_chunks # <<>>
          /\ epc' = "failed_postgres"
          /\ UNCHANGED transcript_chunks
    /\ i' = 0
    /\ UNCHANGED <<channel_id, video_id, segments, current_chunk, start_time,
                   texts, metadatas, ids, pg_chunks, chroma, notChunk>>

\* the record of the k-th (from 1) chunk given to collection.add
ChromaRecord(k) ==
    [id |-> ids[k], document |-> texts[k], metadata |-> metadatas[k]]

\* collection.add: records are stored under their IDs; an ID already in the
\* collection keeps its stored record
CollectionAdd(coll, recs) ==
    coll \cup {r \in recs : ~\E c \in coll : c.id = r.id}

\* lines 185-197: one batch of the loop "for i in range(0, len(texts),
\* batch_size)", or the exception that ends the loop, or the end of the loop
ChromaBatch ==
    /\ epc = "collection_add"
    /\ IF i < Len(texts)
         THEN LET batch_end == Min(i + batch_size, Len(texts)) IN
              \/ /\ chroma' = CollectionAdd(chroma,
                                  {ChromaRecord(k) : k \in (i + 1)..batch_end})
                 /\ i' = i + batch_size
                 /\ UNCHANGED epc
              \/ /\ epc' = "failed_chroma"
                 /\ UNCHANGED <<chroma, i>>
         ELSE /\ epc' = "stored"
              /\ UNCHANGED <<chroma, i>>
    /\ UNCHANGED <<channel_id, video_id, segments, current_chunk, start_time,
                   texts, metadatas, ids, pg_chunks, transcript_chunks,
                   notChunk>>

ChunkNext ==
    \/ ChunkSegment
    \/ BuildPgChunks
    \/ InsertTranscriptChunks
    \/ ChromaBatch

\* ------------------------------------------------------------------------
\* Claims about the chunking loop and the store writes (under SpecChunk)
\* ------------------------------------------------------------------------
Built == epc \in {"insert_transcript_chunks", "failed_postgres",
                  "collection_add", "failed_chroma", "stored"}
LoopDone == (epc = "chunking" /\ i = Len(segments)) \/ Built

\* the words of segment j (from 1)
WC(j) == WordCount(segments[j].text)

RECURSIVE SumWC(_, _)
SumWC(a, b) == IF a > b THEN 0 ELSE WC(a) + SumWC(a + 1, b)

TotalWords == SumWC(1, Len(segments))

\* the non-space characters of a string, in order
Letters(s) == SelectSeq(s, LAMBDA c : c # Space)

RECURSIVE SegLetters(_, _)
SegLetters(a, b) ==
    IF a > b THEN <<>> ELSE Letters(segments[a].text) \o SegLetters(a + 1, b)

\* The greedy partition of the segments: going through them in order, a
\* window ends at the first segment at which the words gathered since the
\* previous end number CHUNK_SIZE or more, and at the last segment.
RECURSIVE WindowEnds(_, _, _)
WindowEnds(j, gathered, ends) ==
    IF j > Len(segments) THEN ends
    ELSE IF gathered + WC(j) >= CHUNK_SIZE \/ j = Len(segments)
           THEN WindowEnds(j + 1, 0, Append(ends, j))
           ELSE WindowEnds(j + 1, gathered + WC(j), ends)

Windows == WindowEnds(1, 0, <<>>)
Last(k) == Windows[k]
First(k) == IF k = 1 THEN 1 ELSE Windows[k - 1] + 1

Ceil(a, b) == (a + b - 1) \div b

\* C5: every chunk carries as start the start time of the first segment of
\* its window (also when that time is 0) and as end the end time of the last
\* segment of its window.
C5_StartOfFirstEndOfLast ==
    LoopDone =>
        /\ Len(metadatas) = Len(Windows)
        /\ \A k \in 1..Len(metadatas) :
              /\ metadatas[k].start = segments[First(k)].start
              /\ metadatas[k].end = segments[Last(k)].end

\* C6: the chunks are the consecutive windows of the segment sequence: a
\* window ends at the first segment at which its word count reaches
\* CHUNK_SIZE, or at the last segment; every segment's text is in exactly one
\* chunk, in order; every chunk but the last has at least CHUNK_SIZE words;
\* the last, partial chunk is emitted; no segments give no chunks.
C6_Partition ==
    LoopDone =>
        /\ Len(texts) = Len(Windows)
        /\ segments = <<>> => texts = <<>>
        /\ segments # <<>> => texts # <<>> /\ Last(Len(texts)) = Len(segments)
        /\ \A k \in 1..Len(texts) :
              /\ First(k) <= Last(k)
              /\ Letters(texts[k]) = SegLetters(First(k), Last(k))
              /\ WordCount(texts[k]) = SumWC(First(k), Last(k))
              /\ k < Len(texts) => WordCount(texts[k]) >= CHUNK_SIZE
              /\ WordCount(texts[k]) - WC(Last(k)) < CHUNK_SIZE

C6_Witness ==
    /\ LoopDone
    /\ Len(texts) >= 2
    /\ WordCount(texts[Len(texts)]) \in 1..(CHUNK_SIZE - 1)
    /\ \E k \in 1..Len(texts) : First(k) < Last(k)

\* C7 as claimed: the number of chunks of an item, and of its rows and
\* records in the two stores, is ceil(total_words / CHUNK_SIZE).
C7_CountIsCeil ==
    epc = "stored" =>
        /\ Len(texts) = Ceil(TotalWords, CHUNK_SIZE)
        /\ Cardinality(transcript_chunks) = Ceil(TotalWords, CHUNK_SIZE)
        /\ Cardinality(chroma) = Ceil(TotalWords, CHUNK_SIZE)

\* C7 as amended: windows end only at segment boundaries, so the number of
\* chunks is 0 for no segments and otherwise at least 1 and at most
\* floor(total_words / CHUNK_SIZE) + 1; once both writes went through, each
\* store holds that many rows or records of the item.
C7_CountBounds ==
    /\ LoopDone =>
          /\ segments = <<>> => Len(texts) = 0
          /\ segments # <<>> =>
                /\ Len(texts) >= 1
                /\ Len(texts) <= (TotalWords \div CHUNK_SIZE) + 1
    /\ Built => Len(pg_chunks) = Len(texts) /\ Len(ids) = Len(texts)
    /\ epc = "stored" =>
          /\ Cardinality(transcript_chunks) = Len(texts)
          /\ Cardinality(chroma) = Len(texts)

C7_Witness ==
    /\ epc = "stored"
    /\ Len(texts) = 2
    /\ Cardinality(chroma) = 2
    /\ Ceil(TotalWords, CHUNK_SIZE) # 2

\* C8 as claimed: the ordinal in the ID of the k-th closed window (k from 0)
\* is k, the chunk_index of its relational row.
C8_OrdinalIsWindowIndex ==
    Built =>
        \A k \in 1..Len(pg_chunks) :
            /\ pg_chunks[k].chunk_index = k - 1
            /\ pg_chunks[k].id =
                   MakeId(channel_id, video_id, pg_chunks[k].chunk_index)

\* C8 as amended: the ordinal in the ID of the k-th closed window is the
\* index (from 0) of the segment that closed it, which is k or more, while
\* the chunk_index of its relational row is k.
C8_OrdinalIsSegmentIndex ==
    /\ LoopDone =>
          \A k \in 1..Len(ids) :
              /\ ids[k] = MakeId(channel_id, video_id, Last(k) - 1)
              /\ Last(k) - 1 >= k - 1
    /\ Built =>
          /\ Len(pg_chunks) = Len(ids)
          /\ \A k \in 1..Len(pg_chunks) :
                /\ pg_chunks[k].chunk_index = k - 1
                /\ pg_chunks[k].id = ids[k]

C8_Witness ==
    /\ Built
    /\ \E k \in 1..Len(pg_chunks) :
          /\ Last(k) - 1 > k - 1
          /\ pg_chunks[k].id # MakeId(channel_id, video_id, k - 1)

\* C9: for every chunk the ID given to the relational store and the ID given
\* to the vector store are the same string, and the row's start_time,
\* end_time and text are the record's start, end and document.
C9_SameIdAndFields ==
    /\ Built =>
          \A k \in 1..Len(ids) :
              /\ k <= Len(pg_chunks)
              /\ pg_chunks[k].id = ChromaRecord(k).id
              /\ pg_chunks[k].start_time = ChromaRecord(k).metadata.start
              /\ pg_chunks[k].end_time = ChromaRecord(k).metadata.end
              /\ pg_chunks[k].text = ChromaRecord(k).document
    /\ \A c \in chroma :
          \E r \in transcript_chunks :
              /\ r.id = c.id
              /\ r.start_time = c.metadata.start
              /\ r.end_time = c.metadata.end
              /\ r.text = c.document
    /\ epc = "stored" =>
          {r.id : r \in transcript_chunks} = {c.id : c \in chroma}

C9_Witness ==
    /\ epc = "stored"
    /\ Cardinality(chroma) >= 2
    /\ \E k \in 1..Len(ids) : First(k) < Last(k)

\* C27: every chunk written to either store has start <= end and a text
\* that is not empty, for every sequence of segments with start <= end,
\* non-decreasing starts and any text, empty and whitespace-only included.
C27_ChunkBoundsAndText ==
    LoopDone =>
        \A k \in 1..Len(texts) :
            /\ metadatas[k].start <= metadatas[k].end
            /\ texts[k] # <<>>

\* ------------------------------------------------------------------------
\* The derived ID on two (channel_id, video_id, index) triples
\* ------------------------------------------------------------------------
MaxIdLen == 3
MaxIndex == 1

\* channel_id is a directory name (embedder.py line 204), video_id a file
\* name without ".json" (line 94): strings that may hold "-"
IdStrings ==
    UNION {[1..n -> {"a", "-"}] : n \in 1..MaxIdLen}

Triples == IdStrings \X IdStrings \X (0..MaxIndex)

IdInit ==
    /\ tripleA \in Triples
    /\ tripleB \in Triples
    /\ idA = <<>>
    /\ idB = <<>>

\* line 161 for each of the two chunks
DeriveIds ==
    /\ idA = <<>>
    /\ idA' = MakeId(tripleA[1], tripleA[2], tripleA[3])
    /\ idB' = MakeId(tripleB[1], tripleB[2], tripleB[3])
    /\ UNCHANGED <<tripleA, tripleB, notId>>

\* C10: two chunks that differ in collection ID, item ID or index never get
\* the same derived ID, also for IDs that contain "-".
C10_DerivedIdsUnique ==
    (idA # <<>> /\ tripleA # tripleB) => idA # idB

\* ------------------------------------------------------------------------
\* Re-ingestion: process_channel reaches the same item again in a later run
\* (its extraction timestamp is 24 hours old or more), the stores keep what
\* the earlier passes wrote
\* ------------------------------------------------------------------------
Seg(st, n, j) == [start |-> st, end |-> st + 1, text |-> Text(n, Letter(j))]

\* transcripts of the item: none, one segment, the same segment transcribed
\* differently, two segments in one window, two segments in two windows
ReSegmentSeqs ==
    { <<>>,
      <<Seg(0, 100, 1)>>,
      <<Seg(1, 60, 1)>>,
      <<Seg(0, 60, 1), Seg(1, 60, 2)>>,
      <<Seg(0, 100, 1), Seg(2, 100, 2)>> }

ReInit ==
    /\ epc = "chunking"
    /\ \E item \in ItemIds : channel_id = item[1] /\ video_id = item[2]
    /\ segments \in ReSegmentSeqs
    /\ i = 0
    /\ current_chunk = <<>>
    /\ start_time = NoneTime
    /\ texts = <<>>
    /\ metadatas = <<>>
    /\ ids = <<>>
    /\ pg_chunks = <<>>
    /\ transcript_chunks = {}
    /\ chroma = {}
    /\ prev_pass = <<>>

ReIdle == prev_pass = <<>>

\* the item's iteration of a later run: lines 134-141 on the transcript as it
\* is then
NextPass ==
    /\ epc \in {"stored", "failed_chroma", "failed_postgres"}
    /\ prev_pass' = <<segments, ids>>
    /\ segments' \in ReSegmentSeqs
    /\ epc' = "chunking"
    /\ i' = 0
    /\ current_chunk' = <<>>
    /\ start_time' = NoneTime
    /\ texts' = <<>>
    /\ metadatas' = <<>>
    /\ ids' = <<>>
    /\ pg_chunks' = <<>>
    /\ UNCHANGED <<channel_id, video_id, transcript_chunks, chroma, dlVars,
                   idVars, metaVars, trimVars>>

ReNext ==
    \/ ChunkSegment
    \/ BuildPgChunks
    \/ InsertTranscriptChunks
    \/ ChromaBatch
    \/ NextPass

\* C11: two passes of the chunking loop over the same collection ID, item ID
\* and segment sequence give the same sequence of chunk IDs, whatever the
\* stores hold from earlier passes.
C11_SameInputSameIds ==
    (LoopDone /\ prev_pass # <<>> /\ prev_pass[1] = segments) =>
        ids = prev_pass[2]

C11_Witness ==
    /\ LoopDone
    /\ prev_pass # <<>>
    /\ prev_pass[1] = segments
    /\ Len(ids) = 2
    /\ transcript_chunks # {}
    /\ chroma # {}

\* C13: after the chunks of an item were written again, each chunk ID has
\* exactly one relational row and exactly one vector record, and both hold
\* the start, end and text of the latest write.
C13_ChunkWriteIsUpsert ==
    (epc = "stored" /\ prev_pass # <<>>) =>
        \A k \in 1..Len(ids) :
            /\ Cardinality({r \in transcript_chunks : r.id = ids[k]}) = 1
            /\ \A r \in transcript_chunks :
                  r.id = ids[k] =>
                      /\ r.start_time = metadatas[k].start
                      /\ r.end_time = metadatas[k].end
                      /\ r.text = texts[k]
            /\ Cardinality({c \in chroma : c.id = ids[k]}) = 1
            /\ \A c \in chroma :
                  c.id = ids[k] =>
                      /\ c.metadata.start = metadatas[k].start
                      /\ c.metadata.end = metadatas[k].end
                      /\ c.document = texts[k]

\* ------------------------------------------------------------------------
\* process_channel up to the chunking: the freshness checks and the
\* metadata writes of one collection with one item (embedder.py lines
\* 57-123, db_client.py)
\* ------------------------------------------------------------------------
TickHours == 12
MaxHours == 48

TheChannel == "ch"
\* the collection IDs insert_channel_metadata is called with
ChannelIds == {TheChannel, "ch2"}
\* no call for the ID has written yet
NoTitle == "-"
TheVideo == "v1"

\* channel_metadata.json as read at line 81, or none (line 86)
NoFile == <<>>
ChannelFiles == {NoFile, <<"t1">>, <<"t2">>}

\* the item's metadata file: title stands for the columns the upsert
\* overwrites (title, description, view_count, like_count), duration for
\* those it writes on insert only
VideoFiles == [title : {"t1", "t2"}, duration : {1, 2}]

NoMeta == [title |-> "", duration |-> 0]

\* the item has no readable transcript file
NoTranscript == [readable |-> FALSE, segments |-> <<>>]

\* the transcript files of the item: unreadable, no segments, one segment of
\* one window, two segments of two windows
TranscriptFiles ==
    {NoTranscript,
     [readable |-> TRUE, segments |-> <<>>],
     [readable |-> TRUE, segments |-> <<Seg(0, 100, 1)>>],
     [readable |-> TRUE, segments |-> <<Seg(0, 100, 1), Seg(2, 100, 2)>>]}

\* an ID as the characters the chunk IDs are built from
IdChars(id) ==
    CASE id = "ch" -> <<"c", "h">>
      [] id = "v1" -> <<"v", "1">>
      [] OTHER -> <<>>

MetaStart ==
    /\ utcnow = 0
    /\ channels = {}
    /\ videos = {}
    /\ mpc = "idle"
    /\ meta = NoMeta
    /\ run_start = 0
    /\ last_channel_write = NoneTime
    /\ min_write_gap = FreshHours
    /\ last_meta = NoMeta
    /\ rows_same_input = <<>>
    /\ latest_call = [c \in ChannelIds |-> NoTitle]
    /\ item_result = "none"

\* the item's transcript file is not readable: its iteration ends at line 132
MetaInit ==
    /\ MetaStart
    /\ transcript_file = NoTranscript

\* the item has one of the transcript files
RunInit ==
    /\ MetaStart
    /\ transcript_file \in TranscriptFiles

MetaIdle ==
    /\ utcnow = 0 /\ channels = {} /\ videos = {} /\ mpc = "off"
    /\ meta = NoMeta /\ run_start = 0 /\ last_channel_write = NoneTime
    /\ min_write_gap = 0 /\ last_meta = NoMeta /\ rows_same_input = <<>>
    /\ latest_call = <<>>
    /\ transcript_file = NoTranscript /\ item_result = "off"

\* time passes
MetaTick ==
    /\ mpc # "off"
    /\ utcnow + TickHours <= MaxHours
    /\ utcnow' = utcnow + TickHours
    /\ UNCHANGED <<channels, videos, mpc, meta, run_start, last_channel_write,
                   min_write_gap, last_meta, rows_same_input, latest_call,
                   transcript_file, item_result, notMeta>>

\* check_channel_metadata (db_client lines 123-135): created_at or None
CheckChannelMetadata(id) ==
    IF \E r \in channels : r.id = id
      THEN (CHOOSE r \in channels : r.id = id).created_at
      ELSE NoneTime

\* check_video_metadata (db_client lines 109-121): extracted_at or None
CheckVideoMetadata(id) ==
    IF \E r \in videos : r.id = id
      THEN (CHOOSE r \in videos : r.id = id).extracted_at
      ELSE NoneTime

\* a freshness test that takes any stored timestamp for a recent one
IsFreshAnyAge(last_processed) == last_processed # NoneTime
\* lines 71 and 99: "last_processed and utcnow - last_processed < 24 hours"
IsFresh(last_processed) ==
    last_processed # NoneTime /\ utcnow - last_processed < FreshHours

\* an INSERT that leaves the row of an ID already in the table as it is
UpsertChannelInsertOnly(table, id, title) ==
    IF \E r \in table : r.id = id
      THEN table
      ELSE table \cup {[id |-> id, title |-> title, created_at |-> utcnow]}
\* insert_channel_metadata: INSERT ... ON CONFLICT (id) DO UPDATE SET title,
\* description, url; created_at is written on insert only
UpsertChannel(table, id, title) ==
    IF \E r \in table : r.id = id
      THEN {IF r.id = id THEN [r EXCEPT !.title = title] ELSE r : r \in table}
      ELSE table \cup {[id |-> id, title |-> title, created_at |-> utcnow]}

\* channel_data.get("title", "") of db_client line 98: the title of the
\* file's content, or "" when the call has the ID alone
Title(file) == IF file = NoFile THEN "" ELSE file[1]

\* an upsert that overwrites every column of the row
UpsertVideoRowAllColumns(table, m) ==
    {r \in table : r.id # m.id}
        \cup {[id |-> m.id, channel_id |-> m.channel_id, title |-> m.title,
                duration |-> m.duration, extracted_at |-> utcnow]}
\* insert_video_metadata: INSERT ... ON CONFLICT (id) DO UPDATE SET title,
\* description, view_count, like_count, extracted_at; the values list ends
\* with datetime.utcnow()
UpsertVideoRow(table, m) ==
    IF \E r \in table : r.id = m.id
      THEN {IF r.id = m.id
              THEN [r EXCEPT !.title = m.title, !.extracted_at = utcnow]
              ELSE r : r \in table}
      ELSE table \cup {[id |-> m.id, channel_id |-> m.channel_id,
                        title |-> m.title, duration |-> m.duration,
                        extracted_at |-> utcnow]}

\* an INSERT that adds a row whatever the table holds
InsertVideoNoConflict(table, id, m) ==
    table \cup {[id |-> id, channel_id |-> TheChannel, title |-> m.title,
                 duration |-> m.duration, extracted_at |-> utcnow]}
\* insert_video_metadata with the file's content, to which lines 112-113
\* have added the collection's ID and the item's
UpsertVideo(table, id, m) ==
    UpsertVideoRow(table, [id |-> id, channel_id |-> TheChannel,
                           title |-> m.title, duration |-> m.duration])

\* lines 67-73: the run starts; the channel's freshness decides whether its
\* metadata is written.  A database error ends the run.
CheckChannel ==
    /\ mpc = "idle"
    /\ run_start' = utcnow
    /\ \/ mpc' = IF IsFresh(CheckChannelMetadata(TheChannel))
                   THEN "check_video" ELSE "channel_meta"
       \/ mpc' = "idle"
    /\ UNCHANGED <<utcnow, channels, videos, meta, last_channel_write,
                   min_write_gap, last_meta, rows_same_input, latest_call,
                   transcript_file, item_result, notMeta>>

\* lines 76-88: insert_channel_metadata with the file's content, or with the
\* ID alone when there is no file.  An error of the first is logged (line
\* 85), an error of the second ends the run.
ChannelMeta ==
    /\ mpc = "channel_meta"
    /\ min_write_gap' =
          IF last_channel_write = NoneTime THEN min_write_gap
          ELSE IF run_start - last_channel_write < min_write_gap
                 THEN run_start - last_channel_write
                 ELSE min_write_gap
    /\ \E file \in ChannelFiles :
          \/ /\ channels' = UpsertChannel(channels, TheChannel, Title(file))
             /\ latest_call' = [latest_call EXCEPT ![TheChannel] = Title(file)]
             /\ last_channel_write' = utcnow
             /\ mpc' = "check_video"
          \/ /\ UNCHANGED <<channels, last_channel_write, latest_call>>
             /\ mpc' = IF file = NoFile THEN "idle" ELSE "check_video"
    /\ UNCHANGED <<utcnow, videos, meta, run_start, last_meta,
                   rows_same_input, transcript_file, item_result, notMeta>>

\* lines 93-116: the item's freshness check, then its metadata file is
\* loaded.  A fresh item, a missing or unreadable file end the iteration,
\* a database error ends the run.
CheckVideo ==
    /\ mpc = "check_video"
    /\ \/ /\ IsFresh(CheckVideoMetadata(TheVideo))
          /\ mpc' = "idle"
          /\ item_result' = "fresh"
          /\ UNCHANGED meta
       \/ /\ ~IsFresh(CheckVideoMetadata(TheVideo))
          /\ \/ /\ meta' \in VideoFiles
                /\ mpc' = "insert_video_metadata"
                /\ item_result' = "none"
             \/ /\ mpc' = "idle"
                /\ item_result' = "no_metadata"
                /\ UNCHANGED meta
       \/ /\ mpc' = "idle"
          /\ item_result' = "raised"
          /\ UNCHANGED meta
    /\ UNCHANGED <<utcnow, channels, videos, run_start, last_channel_write,
                   min_write_gap, last_meta, rows_same_input, latest_call,
                   transcript_file, notMeta>>

\* the IDs of the rows of a table
RowIds(table) == {r.id : r \in table}

ItemRow(table) == CHOOSE r \in table : r.id = TheVideo

\* lines 118-123: insert_video_metadata(meta); on an error the item is left
InsertVideoMetadata ==
    /\ mpc = "insert_video_metadata"
    /\ \/ /\ videos' = UpsertVideo(videos, TheVideo, meta)
          /\ last_meta' = meta
          /\ rows_same_input' =
                IF meta = last_meta /\ \E r \in videos : r.id = TheVideo
                  THEN <<ItemRow(videos), ItemRow(videos')>>
                  ELSE <<>>
          /\ mpc' = "load_transcript"
          /\ UNCHANGED item_result
       \/ /\ UNCHANGED <<videos, last_meta, rows_same_input>>
          /\ mpc' = "idle"
          /\ item_result' = "metadata_failed"
    /\ meta' = NoMeta
    /\ UNCHANGED <<utcnow, channels, run_start, last_channel_write,
                   min_write_gap, latest_call, transcript_file, notMeta>>

\* lines 125-141: the transcript is loaded and the chunking loop is set up,
\* or the file cannot be read and the item is left (lines 130-132)
LoadTranscript ==
    /\ mpc = "load_transcript"
    /\ mpc' = IF transcript_file.readable THEN "chunks" ELSE "idle"
    /\ item_result' =
          IF transcript_file.readable THEN item_result ELSE "no_transcript"
    /\ epc' = IF transcript_file.readable THEN "chunking" ELSE epc
    /\ channel_id' =
          IF transcript_file.readable THEN IdChars(TheChannel) ELSE channel_id
    /\ video_id' =
          IF transcript_file.readable THEN IdChars(TheVideo) ELSE video_id
    /\ segments' =
          IF transcript_file.readable THEN transcript_file.segments ELSE segments
    /\ i' = 0
    /\ current_chunk' = <<>>
    /\ start_time' = NoneTime
    /\ texts' = <<>>
    /\ metadatas' = <<>>
    /\ ids' = <<>>
    /\ pg_chunks' = <<>>
    /\ UNCHANGED <<utcnow, channels, videos, meta, run_start,
                   last_channel_write, min_write_gap, last_meta,
                   rows_same_input, latest_call, transcript_file,
                   transcript_chunks, chroma, dlVars, idVars, reVars, trimVars>>

MetaNext ==
    \/ MetaTick
    \/ CheckChannel
    \/ ChannelMeta
    \/ CheckVideo
    \/ InsertVideoMetadata
    \/ LoadTranscript

\* lines 182 and 195-197: the item's iteration is over, with both writes
\* done or one of them failed
EndItem ==
    /\ mpc = "chunks"
    /\ epc \in {"stored", "failed_chroma", "failed_postgres"}
    /\ mpc' = "idle"
    /\ item_result' = epc
    /\ UNCHANGED <<utcnow, channels, videos, meta, run_start,
                   last_channel_write, min_write_gap, last_meta,
                   rows_same_input, latest_call, transcript_file, notMeta>>

\* between two runs the item is transcribed again
\* (download_videos.py lines 350-355 write the transcript file)
Transcribe ==
    /\ mpc = "idle"
    /\ \E t \in TranscriptFiles :
          t # transcript_file /\ transcript_file' = t
    /\ UNCHANGED <<utcnow, channels, videos, mpc, meta, run_start,
                   last_channel_write, min_write_gap, last_meta,
                   rows_same_input, latest_call, item_result, notMeta>>

\* line 93: a run of process_channel reaches the item; what the run did
\* before (lines 57-91) wrote at most the table channels
NextRun ==
    /\ mpc = "idle"
    /\ mpc' = "check_video"
    /\ run_start' = utcnow
    /\ UNCHANGED <<utcnow, channels, videos, meta, last_channel_write,
                   min_write_gap, last_meta, rows_same_input, latest_call,
                   transcript_file, item_result, notMeta>>

RunNext ==
    \/ MetaTick
    \/ NextRun
    \/ CheckVideo
    \/ InsertVideoMetadata
    \/ LoadTranscript
    \/ ChunkNext
    \/ EndItem
    \/ Transcribe

ItemRows == {r \in videos : r.id = TheVideo}

\* C12 as claimed: after insert_video_metadata was applied twice with the
\* same input there is one row for the item, identical to the row after the
\* first application.
C12_SecondWriteSameRow ==
    rows_same_input # <<>> =>
        /\ Cardinality(ItemRows) = 1
        /\ rows_same_input[2] = rows_same_input[1]

\* C12 as amended: after insert_video_metadata was applied twice with the
\* same input there is one row for the item, identical to the row after the
\* first application in every column but extracted_at, which is refreshed.
C12_SecondWriteSameRowButTimestamp ==
    /\ Cardinality(ItemRows) <= 1
    /\ rows_same_input # <<>> =>
          /\ Cardinality(ItemRows) = 1
          /\ [rows_same_input[2] EXCEPT !.extracted_at = 0]
                = [rows_same_input[1] EXCEPT !.extracted_at = 0]
          /\ rows_same_input[2].extracted_at >= rows_same_input[1].extracted_at
          /\ rows_same_input[2].extracted_at <= utcnow

C12_Witness ==
    /\ rows_same_input # <<>>
    /\ rows_same_input[2].extracted_at > rows_same_input[1].extracted_at
    /\ rows_same_input[2].title = "t2"
    /\ ItemRows = {rows_same_input[2]}

\* C15: a run of process_channel that starts less than 24 hours after the
\* previous write of the collection's metadata does not call
\* insert_channel_metadata.
C15_NoChannelWriteWithinWindow == min_write_gap >= FreshHours

\* ------------------------------------------------------------------------
\* insert_channel_metadata called any number of times for two collection
\* IDs (db_client.py lines 82-107)
\* ------------------------------------------------------------------------
\* the empty dict
NoChannelData == [id |-> "", title |-> ""]

\* the argument channel_data: empty, the ID alone (title "" by line 98) or
\* the ID with a title; title stands for title, description and url
ChannelData ==
    {NoChannelData} \cup [id : ChannelIds, title : {"", "t1", "t2"}]

\* one call of insert_channel_metadata; mpc keeps how it ended: skipped for
\* empty data (lines 83-85), written, or raised on a database error (lines
\* 105-107), which leaves the table as it was
InsertChannelMetadata ==
    /\ \E d \in ChannelData :
          IF d = NoChannelData
            THEN /\ mpc' = "skipped"
                 /\ UNCHANGED <<channels, latest_call>>
            ELSE \/ /\ channels' = UpsertChannel(channels, d.id, d.title)
                    /\ latest_call' = [latest_call EXCEPT ![d.id] = d.title]
                    /\ mpc' = "written"
                 \/ /\ mpc' = "raised"
                    /\ UNCHANGED <<channels, latest_call>>
    /\ UNCHANGED <<utcnow, videos, meta, run_start, last_channel_write,
                   min_write_gap, last_meta, rows_same_input, transcript_file,
                   item_result, notMeta>>

UpsertNext ==
    \/ MetaTick
    \/ InsertChannelMetadata

RowsOf(c) == {r \in channels : r.id = c}

\* C26: insert_channel_metadata is an insert-or-update by collection ID:
\* after any sequence of calls there is exactly one row for every ID that was
\* written and none for the others, the row's title (standing for title,
\* description and url) is that of the latest call for its ID, and a row that
\* exists stays, with its ID and its creation time, through every later call.
C26_UpsertByCollectionId ==
    /\ [](/\ \A c \in ChannelIds :
                Cardinality(RowsOf(c)) = IF latest_call[c] = NoTitle THEN 0 ELSE 1
          /\ \A r \in channels :
                r.id \in ChannelIds /\ r.title = latest_call[r.id])
    /\ [][\A r \in channels :
             \E r2 \in channels' :
                 r2.id = r.id /\ r2.created_at = r.created_at]_vars

C26_Witness ==
    /\ mpc = "written"
    /\ Cardinality(channels) = 2
    /\ \E r \in channels :
          r.id = TheChannel /\ r.title = "t2" /\ r.created_at < utcnow
    /\ \E r \in channels :
          r.id # TheChannel /\ r.title = "" /\ r.created_at = utcnow

\* ------------------------------------------------------------------------
\* insert_video_metadata called any number of times for two item IDs
\* (db_client.py lines 24-59)
\* ------------------------------------------------------------------------
VideoIds == {TheVideo, "v2"}

\* the empty dict
NoVideoData == [id |-> "", channel_id |-> "", title |-> "", duration |-> 0]

\* the argument meta: empty, or an item's ID, collection, title (standing
\* for the columns the statement overwrites) and duration (standing for
\* upload_date, duration, categories, language and url)
VideoData ==
    {NoVideoData}
        \cup [id : VideoIds, channel_id : ChannelIds, title : {"t1", "t2"},
              duration : {1, 2}]

\* one call of insert_video_metadata; mpc keeps how it ended: skipped for
\* empty data (lines 25-27), written, or raised on a database error (lines
\* 57-59), which leaves the table as it was
InsertVideoMetadataCall ==
    /\ \E d \in VideoData :
          IF d = NoVideoData
            THEN /\ mpc' = "skipped"
                 /\ UNCHANGED <<videos, last_meta>>
            ELSE \/ /\ videos' = UpsertVideoRow(videos, d)
                    /\ last_meta' = [title |-> d.title, duration |-> d.duration]
                    /\ mpc' = "written"
                 \/ /\ mpc' = "raised"
                    /\ UNCHANGED <<videos, last_meta>>
    /\ UNCHANGED <<utcnow, channels, meta, run_start, last_channel_write,
                   min_write_gap, rows_same_input, latest_call,
                   transcript_file, item_result, notMeta>>

UpsertItemNext ==
    \/ MetaTick
    \/ InsertVideoMetadataCall

\* C37: insert_video_metadata on an existing item ID changes only title,
\* description, view_count, like_count and extracted_at of that row: in
\* every call a row that exists stays with its ID, channel_id and duration
\* (standing for upload_date, duration, categories, language and url), and
\* at most one row, that of the call's ID, differs after the call.
C37_UpdateTouchesMutableColumnsOnly ==
    [][/\ \A r \in videos :
             \E r2 \in videos' :
                 /\ r2.id = r.id
                 /\ r2.channel_id = r.channel_id
                 /\ r2.duration = r.duration
       /\ Cardinality(videos \ videos') <= 1
       /\ Cardinality(RowIds(videos')) = Cardinality(videos')]_vars

\* the row of one item was updated by a call with another duration and
\* title, the row of the other item is as it was inserted
C37_Witness ==
    /\ mpc = "written"
    /\ Cardinality(videos) = 2
    /\ \E r \in videos :
          /\ r.title = "t2" /\ last_meta.title = "t2"
          /\ r.duration = 1 /\ last_meta.duration = 2
          /\ r.extracted_at = utcnow
    /\ \E r \in videos : r.extracted_at < utcnow /\ r.channel_id = "ch2"

\* ------------------------------------------------------------------------
\* The item's iteration in successive runs of process_channel: freshness
\* check, metadata upsert, chunking and the two store writes (embedder.py
\* lines 93-197)
\* ------------------------------------------------------------------------
\* the item has a row whose extracted_at is less than 24 hours old
ItemRowFresh ==
    \E r \in videos : r.id = TheVideo /\ utcnow - r.extracted_at < FreshHours

\* C32: process_channel writes nothing for an item whose stored extracted_at
\* is less than 24 hours old: from the freshness check of such an item the
\* iteration ends with the item's row, its chunk rows and its vector records
\* unchanged; and an item with no row or an older timestamp is never skipped
\* as fresh.
C32_FreshItemUntouched ==
    [][/\ (mpc = "check_video" /\ ItemRowFresh) =>
             /\ mpc' \in {"check_video", "idle"}
             /\ UNCHANGED <<videos, transcript_chunks, chroma>>
       /\ (mpc = "check_video" /\ ~ItemRowFresh /\ mpc' = "idle") =>
             item_result' # "fresh"]_vars

C32_Witness ==
    /\ mpc = "idle"
    /\ item_result = "fresh"
    /\ ItemRowFresh
    /\ Cardinality(transcript_chunks) = 2
    /\ Cardinality(chroma) = 2

\* C33: the relational store is never behind the vector store: in every
\* reachable state every chunk ID of the vector store is an ID of
\* transcript_chunks, and every chunk row belongs to an item that has a row
\* in videos.
C33_RelationalNeverBehind ==
    /\ \A c \in chroma : \E r \in transcript_chunks : r.id = c.id
    /\ \A r \in transcript_chunks :
          \E v \in videos : IdChars(v.id) = r.video_id

C33_Witness ==
    /\ item_result = "failed_chroma"
    /\ Cardinality(transcript_chunks) = 2
    /\ chroma = {}

\* C34: the dual write is re-runnable: a run of process_channel that comes
\* to the item after a run in which the chunk write or the vector write of
\* the item failed does not skip the item as fresh, at whatever time it
\* runs.
C34_RerunNotSkippedAfterFailure ==
    [][(mpc = "check_video"
          /\ item_result \in {"failed_postgres", "failed_chroma"})
         => item_result' # "fresh"]_vars

\* C35: an item with no metadata file whose transcript is readable is still
\* chunked and written to both stores: when its iteration has ended for the
\* lack of the metadata file, both stores hold chunks of the item.
C35_NoMetadataStillPersisted ==
    (mpc = "idle" /\ item_result = "no_metadata" /\ transcript_file.readable)
        => /\ \E r \in transcript_chunks : r.video_id = IdChars(TheVideo)
           /\ \E c \in chroma : c.metadata.video_id = IdChars(TheVideo)


\* C38: nothing is deleted: in every step of any sequence of runs the item
\* IDs of videos and the chunk IDs of transcript_chunks only grow.
C38_RelationalStoreOnlyGrows ==
    [][/\ RowIds(videos) \subseteq RowIds(videos')
       /\ RowIds(transcript_chunks) \subseteq RowIds(transcript_chunks')]_vars

\* the item was ingested again with a transcript of one chunk; the row of
\* the second chunk of its earlier transcript is still stored
C38_Witness ==
    /\ item_result = "stored"
    /\ Len(transcript_file.segments) = 1
    /\ Len(ids) = 1
    /\ Cardinality(transcript_chunks) = 2
    /\ \E r \in transcript_chunks : r.id \notin {ids[k] : k \in 1..Len(ids)}

\* ------------------------------------------------------------------------
\* trim_silence, called for each file of a directory by
\* process_audio_directory (src/app/pipeline/audio_processor.py)
\* ------------------------------------------------------------------------
NumWavs == 2

WavFiles == 1..NumWavs

TrimInit ==
    /\ wav_k = 1
    /\ tpc = "exists"
    /\ input_file \in [WavFiles -> {"original", "absent"}]
    /\ output_file \in [WavFiles -> {"absent", "stale"}]
    /\ original = input_file
    /\ trim_result = [k \in WavFiles |-> "none"]

TrimIdle ==
    /\ wav_k = 0 /\ tpc = "off" /\ input_file = <<>> /\ output_file = <<>>
    /\ original = <<>> /\ trim_result = <<>>

\* the call for the current file is over (line 64 or lines 66-68); the loop
\* of process_audio_directory goes on with the next file (lines 79-85)
TrimEnds(how) ==
    /\ trim_result' = [trim_result EXCEPT ![wav_k] = how]
    /\ wav_k' = wav_k + 1
    /\ tpc' = IF wav_k = NumWavs THEN "done" ELSE "exists"

\* lines 18-29: the input must exist; the output directory is made
TrimExists ==
    /\ tpc = "exists"
    /\ \/ /\ input_file[wav_k] = "absent"
          /\ TrimEnds("raised")
       \/ /\ input_file[wav_k] # "absent"
          /\ \/ /\ tpc' = "ffmpeg"
                /\ UNCHANGED <<wav_k, trim_result>>
             \/ TrimEnds("raised")
    /\ UNCHANGED <<input_file, output_file, original, notTrim>>

\* lines 37-58: ffmpeg -y writes output_file; a non-zero exit or a missing
\* output file raises
RunFfmpeg ==
    /\ tpc = "ffmpeg"
    /\ \/ /\ output_file' = [output_file EXCEPT ![wav_k] = "trimmed"]
          /\ tpc' = "unlink"
          /\ UNCHANGED <<wav_k, trim_result>>
       \/ /\ \E left \in {output_file[wav_k], "partial"} :
                output_file' = [output_file EXCEPT ![wav_k] = left]
          /\ TrimEnds("raised")
    /\ UNCHANGED <<input_file, original, notTrim>>

\* line 61: input_file.unlink()
Unlink ==
    /\ tpc = "unlink"
    /\ \/ /\ input_file' = [input_file EXCEPT ![wav_k] = "absent"]
          /\ tpc' = "rename"
          /\ UNCHANGED <<wav_k, trim_result>>
       \/ /\ TrimEnds("raised")
          /\ UNCHANGED input_file
    /\ UNCHANGED <<output_file, original, notTrim>>

\* line 62: output_file.rename(input_file), which moves the file or raises
\* and changes nothing
Rename(k, ok) ==
    IF ok
      THEN /\ input_file' = [input_file EXCEPT ![k] = output_file[k]]
           /\ output_file' = [output_file EXCEPT ![k] = "absent"]
      ELSE UNCHANGED <<input_file, output_file>>

\* lines 62-64: the rename, then return input_file
RenameStep ==
    /\ tpc = "rename"
    /\ \E ok \in BOOLEAN :
          /\ Rename(wav_k, ok)
          /\ TrimEnds(IF ok THEN "returned" ELSE "raised")
    /\ UNCHANGED <<original, notTrim>>

TrimNext ==
    \/ TrimExists
    \/ RunFfmpeg
    \/ Unlink
    \/ RenameStep

\* C16: after a call of trim_silence either it returned and the file at the
\* input path is the normalized audio, or it raised and the input path holds
\* what it held before the call; the input path is never left missing or
\* partially written.
C16_TrimIsAtomic ==
    \A k \in WavFiles :
        /\ trim_result[k] = "returned" => input_file[k] = "trimmed"
        /\ trim_result[k] = "raised" => input_file[k] = original[k]

ChunkIdle ==
    /\ epc = "off" /\ channel_id = <<>> /\ video_id = <<>> /\ segments = <<>>
    /\ i = 0 /\ current_chunk = <<>> /\ start_time = NoneTime /\ texts = <<>>
    /\ metadatas = <<>> /\ ids = <<>> /\ pg_chunks = <<>>
    /\ transcript_chunks = {} /\ chroma = {}

IdIdle ==
    /\ tripleA = <<>> /\ tripleB = <<>> /\ idA = <<>> /\ idB = <<>>

Init == DlInit /\ ChunkIdle /\ IdIdle /\ ReIdle /\ MetaIdle /\ TrimIdle
Next == DlNext
Spec == Init /\ [][Next]_vars

InitChunk == DlIdle /\ ChunkInit /\ IdIdle /\ ReIdle /\ MetaIdle /\ TrimIdle
SpecChunk == InitChunk /\ [][ChunkNext]_vars

InitId == DlIdle /\ ChunkIdle /\ IdInit /\ ReIdle /\ MetaIdle /\ TrimIdle
SpecId == InitId /\ [][DeriveIds]_vars

InitReingest == DlIdle /\ ReInit /\ IdIdle /\ MetaIdle /\ TrimIdle
SpecReingest == InitReingest /\ [][ReNext]_vars

InitMeta == DlIdle /\ ChunkIdle /\ IdIdle /\ ReIdle /\ MetaInit /\ TrimIdle
SpecMeta == InitMeta /\ [][MetaNext]_vars

InitTrim == DlIdle /\ ChunkIdle /\ IdIdle /\ ReIdle /\ MetaIdle /\ TrimInit
SpecTrim == InitTrim /\ [][TrimNext]_vars

SpecSignal == Init /\ [][SignalNext]_vars

InitSelect == SelInit /\ ChunkIdle /\ IdIdle /\ ReIdle /\ MetaIdle /\ TrimIdle
SpecSelect == InitSelect /\ [][SelNext]_vars

SpecUpsert == InitMeta /\ [][UpsertNext]_vars

SpecUpsertItem == InitMeta /\ [][UpsertItemNext]_vars

InitLeftover ==
    LeftoverInit /\ ChunkIdle /\ IdIdle /\ ReIdle /\ MetaIdle /\ TrimIdle
SpecLeftover == InitLeftover /\ [][Next]_vars

InitFair == FairInit /\ ChunkIdle /\ IdIdle /\ ReIdle /\ MetaIdle /\ TrimIdle
SpecFair == InitFair /\ [][Next]_vars /\ DlFairness

InitRun == DlIdle /\ ChunkIdle /\ IdIdle /\ ReIdle /\ RunInit /\ TrimIdle
SpecRun == InitRun /\ [][RunNext]_vars

InitGetMetadata ==
    GetMetadataInit /\ ChunkIdle /\ IdIdle /\ ReIdle /\ MetaIdle /\ TrimIdle
SpecGetMetadata == InitGetMetadata /\ [][Next]_vars

====
